---- MODULE Spec2Model ----
(***************************************************************************)
(* Model of the Viki -> Trakt show matching engine                          *)
(* (src/src/viki_trakt_sync/matcher.py) with the external clients it calls. *)
(*                                                                          *)
(* Strings are tuples of one-character strings, so that the normalisation  *)
(* functions are computed character by character as the regular            *)
(* expressions of the source compute them.  Confidences are integers in    *)
(* hundredths (1.0 = 100, 0.85 = 85): every confidence and threshold of    *)
(* the source is a multiple of 0.01 and no two of them are closer than     *)
(* 0.01, so the comparisons agree with the floating-point ones.            *)
(***************************************************************************)
EXTENDS Integers, Sequences, FiniteSets, TLC

\* Python None for strings-valued fields (method, notes) ...
NULL == "null"
\* ... for text values modelled as character tuples ...
NoneStr == <<"None">>
\* ... and for integer-valued fields (trakt_id, tvdb_id).
NoneId == 0 - 1

\* Python truthiness of an Optional[int]: None and 0 are falsy.
Truthy(n) == n # NoneId /\ n # 0

\* `s or ""`
OrEmpty(s) == IF s = NoneStr THEN <<>> ELSE s

----------------------------------------------------------------------------
\* Normaliser: the nested helpers _norm, _norm_no_article, _slugify.

UpperCase == <<"A","B","C","D","E","F","G","H","I","J","K","L","M",
               "N","O","P","Q","R","S","T","U","V","W","X","Y","Z">>
LowerCase == <<"a","b","c","d","e","f","g","h","i","j","k","l","m",
               "n","o","p","q","r","s","t","u","v","w","x","y","z">>
Digits == {"0","1","2","3","4","5","6","7","8","9"}
Whitespace == {" "}

\* str.lower() on one character
LowerChar(c) ==
  IF \E i \in 1..Len(UpperCase) : UpperCase[i] = c
    THEN LowerCase[CHOOSE i \in 1..Len(UpperCase) : UpperCase[i] = c]
    ELSE c

\* str.lower()
Lower(s) == [i \in 1..Len(s) |-> LowerChar(s[i])]

\* the character class [a-z0-9]
IsAlnum(c) == (\E i \in 1..Len(LowerCase) : LowerCase[i] = c) \/ c \in Digits

RECURSIVE DropWhile(_, _)
\* s without its longest prefix of characters from set cs
DropWhile(s, cs) ==
  IF s # <<>> /\ Head(s) \in cs THEN DropWhile(Tail(s), cs) ELSE s

RECURSIVE DropNonAlnum(_)
DropNonAlnum(s) ==
  IF s # <<>> /\ ~IsAlnum(Head(s)) THEN DropNonAlnum(Tail(s)) ELSE s

RECURSIVE SubRuns(_, _)
\* re.sub(r"[^a-z0-9]+", sep, s): each maximal run outside [a-z0-9] becomes sep
SubRuns(s, sep) ==
  IF s = <<>> THEN <<>>
  ELSE IF IsAlnum(Head(s)) THEN <<Head(s)>> \o SubRuns(Tail(s), sep)
  ELSE <<sep>> \o SubRuns(DropNonAlnum(Tail(s)), sep)

Reverse(s) == [i \in 1..Len(s) |-> s[Len(s) + 1 - i]]

\* str.strip(chars)
Strip(s, cs) == Reverse(DropWhile(Reverse(DropWhile(s, cs)), cs))

\* str.startswith
StartsWith(s, p) == Len(p) <= Len(s) /\ SubSeq(s, 1, Len(p)) = p

\* re.sub(r"^(the|a|an)\s+", "", s), with flags=re.IGNORECASE when ic
ReSubArticle(s, ic) ==
  LET t == IF ic THEN Lower(s) ELSE s
      arts == {<<"t","h","e">>, <<"a">>, <<"a","n">>}
      hit == {a \in arts : StartsWith(t, a) /\ Len(t) > Len(a)
                            /\ t[Len(a) + 1] \in Whitespace}
  IN IF hit = {} THEN s
     ELSE LET a == CHOOSE a \in hit : TRUE
          IN DropWhile(SubSeq(s, Len(a) + 1, Len(s)), Whitespace)

_norm(s) == Strip(SubRuns(Lower(OrEmpty(s)), " "), Whitespace)

_norm_no_article(s) == ReSubArticle(_norm(s), FALSE)

_slugify(s) == Strip(SubRuns(Lower(OrEmpty(s)), "-"), {"-"})

----------------------------------------------------------------------------
\* MatchResult and the match cache (MatchDB).

\* MatchResult(...): the dataclass; matched_at (a wall-clock stamp) is left out.
MatchResult(viki_id, viki_title, trakt_id, trakt_slug, trakt_title, confidence, method, tvdb_id, notes) ==
  [viki_id |-> viki_id, viki_title |-> viki_title, trakt_id |-> trakt_id,
   trakt_slug |-> trakt_slug, trakt_title |-> trakt_title,
   match_confidence |-> confidence, match_method |-> method,
   tvdb_id |-> tvdb_id, notes |-> notes]

\* MatchResult(viki_id=..., viki_title=..., notes=...): every other field default
Unmatched(viki_id, viki_title, notes) ==
  MatchResult(viki_id, viki_title, NoneId, NoneStr, NoneStr, 0, NULL, NoneId, notes)

\* MatchResult.is_matched
is_matched(r) == r.trakt_id # NoneId /\ r.match_confidence > 0

\* What a tier hands back to match(): a MatchResult, or an exception that
\* leaves the tier (raised = TRUE; result is then meaningless).
Returns(r) == [raised |-> FALSE, result |-> r]
Raises(viki_id, viki_title) ==
  [raised |-> TRUE, result |-> Unmatched(viki_id, viki_title, "exception")]

----------------------------------------------------------------------------
\* Tracking platform client (TraktClient).

\* An HTTP exchange: status "200", "404", "503" or "timeout" (the request
\* raised), json_ok = the body parses, data = the parsed body.
Http(status, json_ok, data) == [status |-> status, json_ok |-> json_ok, data |-> data]

\* One element of the search response.  show_null: the element's "show" is
\* null, so show.get(...) raises AttributeError.
SearchItem(title, trakt, slug) ==
  [show_null |-> FALSE, title |-> title, trakt |-> trakt, slug |-> slug]
NullShowItem == [show_null |-> TRUE, title |-> NoneStr, trakt |-> NoneId, slug |-> NoneStr]

\* TraktClient.search_shows: any failure (HTTP error status, timeout, body
\* that does not parse) is swallowed into an empty list; no retry is made.
search_shows(resp) ==
  IF resp.status = "200" /\ resp.json_ok THEN resp.data ELSE <<>>

\* TraktClient.get_show_by_slug against the by-slug endpoint, whose content
\* is the set `catalog` of shows; NoShow is Python None (404, any failure).
NoShow == [found |-> FALSE, title |-> NoneStr, trakt |-> NoneId, slug |-> NoneStr]
get_show_by_slug(catalog, slug) ==
  IF \E s \in catalog : s.slug = slug
    THEN LET s == CHOOSE s \in catalog : s.slug = slug
         IN [found |-> TRUE, title |-> s.title, trakt |-> s.trakt, slug |-> s.slug]
    ELSE NoShow

\* TraktClient.get_show_by_tvdb against the by-external-id endpoint: xref maps
\* a TVDB id to the first show of the response, or to NoShow.
get_show_by_tvdb(xref, tvdb_id) ==
  IF tvdb_id \in DOMAIN xref THEN xref[tvdb_id] ELSE NoShow

----------------------------------------------------------------------------
\* Tier 2: exact Trakt search (ShowMatcher._tier_exact_trakt).

RECURSIVE ScanTitlesLastArticle(_, _, _, _, _)
\* ScanTitles remembering the last article-stripped match instead of the first.
ScanTitlesLastArticle(results, i, chosen_article, norm_query, norm_query_wo) ==
  IF i > Len(results)
    THEN [raised |-> FALSE, chosen |-> 0, chosen_article |-> chosen_article]
  ELSE IF results[i].show_null
    THEN [raised |-> TRUE, chosen |-> 0, chosen_article |-> chosen_article]
  ELSE IF _norm(OrEmpty(results[i].title)) = norm_query
    THEN [raised |-> FALSE, chosen |-> i, chosen_article |-> chosen_article]
  ELSE ScanTitlesLastArticle(results, i + 1,
                  IF _norm_no_article(OrEmpty(results[i].title)) = norm_query_wo
                    THEN i ELSE chosen_article,
                  norm_query, norm_query_wo)

RECURSIVE ScanTitles(_, _, _, _, _)
\* The one-pass scan, from element i on: index of the first element whose
\* normalised title equals the query (chosen), remembering the first element
\* that matches once the leading article is dropped (chosen_article); 0 is
\* None.  An element whose "show" is null raises.
ScanTitles(results, i, chosen_article, norm_query, norm_query_wo) ==
  IF i > Len(results)
    THEN [raised |-> FALSE, chosen |-> 0, chosen_article |-> chosen_article]
  ELSE IF results[i].show_null
    THEN [raised |-> TRUE, chosen |-> 0, chosen_article |-> chosen_article]
  ELSE IF _norm(OrEmpty(results[i].title)) = norm_query
    THEN [raised |-> FALSE, chosen |-> i, chosen_article |-> chosen_article]
  ELSE ScanTitles(results, i + 1,
                  IF chosen_article = 0
                     /\ _norm_no_article(OrEmpty(results[i].title)) = norm_query_wo
                    THEN i ELSE chosen_article,
                  norm_query, norm_query_wo)

\* Index of the first element whose slug starts with prefix, 0 if none.
ScanSlugs(results, prefix) ==
  LET hits == {i \in 1..Len(results) : StartsWith(OrEmpty(results[i].slug), prefix)}
  IN IF hits = {} THEN 0 ELSE CHOOSE i \in hits : \A j \in hits : i <= j

\* SlugTries in ascending order of year.
SlugTriesByYear(slug_query) ==
  << slug_query,
     slug_query \o <<"-","2","0","2","4">>,
     slug_query \o <<"-","2","0","2","5">>,
     slug_query \o <<"-","2","0","2","6">> >>

\* The slugs probed by direct lookup, in order.
SlugTries(slug_query) ==
  << slug_query,
     slug_query \o <<"-","2","0","2","5">>,
     slug_query \o <<"-","2","0","2","4">>,
     slug_query \o <<"-","2","0","2","6">> >>

\* Confidence and method given to the chosen search result.
Grade(trakt_title, trakt_slug, matched_via_article, norm_query, norm_query_wo, slug_query, slug_query_wo) ==
  IF _norm(trakt_title) = norm_query \/ StartsWith(OrEmpty(trakt_slug), slug_query)
    THEN [confidence |-> 100, method |-> "exact_trakt"]
  ELSE IF matched_via_article
          \/ _norm_no_article(trakt_title) = norm_query_wo
          \/ StartsWith(OrEmpty(trakt_slug), slug_query_wo)
    THEN [confidence |-> 90, method |-> "exact_trakt_article"]
  ELSE [confidence |-> 80, method |-> "exact_trakt_first"]

\* ExactResult with the confidence left at the dataclass default.
ExactResultNoConfidence(viki_id, viki_title, chosen, g) ==
  Returns(MatchResult(viki_id, viki_title, chosen.trakt, chosen.slug, chosen.title,
                      0, g.method, NoneId, ""))

\* The MatchResult built from the chosen search result and its grade g.
ExactResult(viki_id, viki_title, chosen, g) ==
  Returns(MatchResult(viki_id, viki_title, chosen.trakt, chosen.slug, chosen.title,
                      g.confidence, g.method, NoneId, ""))

\* The MatchResult built from a successful direct slug lookup.
SlugLookupResult(viki_id, viki_title, data) ==
  Returns(MatchResult(viki_id, viki_title, data.trakt, data.slug, data.title,
                      100, "slug_lookup", NoneId, ""))

\* Position in `tries` of the first slug the by-slug endpoint knows, 0 if none.
FirstFound(catalog, tries) ==
  LET found == {k \in 1..Len(tries) : get_show_by_slug(catalog, tries[k]).found}
  IN IF found = {} THEN 0 ELSE CHOOSE k \in found : \A j \in found : k <= j

\* ExactChoice preferring the article-stripped match to the exact one.
ExactChoiceArticleFirst(viki_id, viki_title, results, catalog, scan, s2, s2b, k, q) ==
  IF scan.raised THEN Raises(viki_id, viki_title)
  ELSE IF scan.chosen_article # 0
    THEN ExactResult(viki_id, viki_title, results[scan.chosen_article],
           Grade(results[scan.chosen_article].title, results[scan.chosen_article].slug,
                 TRUE, q.norm, q.norm_wo, q.slug, q.slug_wo))
  ELSE IF scan.chosen # 0
    THEN ExactResult(viki_id, viki_title, results[scan.chosen],
           Grade(results[scan.chosen].title, results[scan.chosen].slug, FALSE,
                 q.norm, q.norm_wo, q.slug, q.slug_wo))
  ELSE IF k # 0
    THEN SlugLookupResult(viki_id, viki_title,
                          get_show_by_slug(catalog, SlugTries(q.slug)[k]))
  ELSE ExactResult(viki_id, viki_title, results[1],
         Grade(results[1].title, results[1].slug, FALSE,
               q.norm, q.norm_wo, q.slug, q.slug_wo))

\* The choice among the search results: scan is the outcome of the title
\* scan, s2 and s2b the outcomes of the two slug scans, k the outcome of the
\* direct slug lookups; q holds the four forms of the query.
ExactChoice(viki_id, viki_title, results, catalog, scan, s2, s2b, k, q) ==
  IF scan.raised THEN Raises(viki_id, viki_title)
  ELSE IF scan.chosen # 0
    THEN ExactResult(viki_id, viki_title, results[scan.chosen],
           Grade(results[scan.chosen].title, results[scan.chosen].slug, FALSE,
                 q.norm, q.norm_wo, q.slug, q.slug_wo))
  ELSE IF scan.chosen_article # 0
    THEN ExactResult(viki_id, viki_title, results[scan.chosen_article],
           Grade(results[scan.chosen_article].title, results[scan.chosen_article].slug,
                 TRUE, q.norm, q.norm_wo, q.slug, q.slug_wo))
  ELSE IF s2 # 0
    THEN ExactResult(viki_id, viki_title, results[s2],
           Grade(results[s2].title, results[s2].slug, FALSE,
                 q.norm, q.norm_wo, q.slug, q.slug_wo))
  ELSE IF q.slug_wo # q.slug /\ s2b # 0
    THEN ExactResult(viki_id, viki_title, results[s2b],
           Grade(results[s2b].title, results[s2b].slug, TRUE,
                 q.norm, q.norm_wo, q.slug, q.slug_wo))
  ELSE IF k # 0
    THEN SlugLookupResult(viki_id, viki_title,
                          get_show_by_slug(catalog, SlugTries(q.slug)[k]))
  ELSE ExactResult(viki_id, viki_title, results[1],
         Grade(results[1].title, results[1].slug, FALSE,
               q.norm, q.norm_wo, q.slug, q.slug_wo))

\* The tier once the search has returned `results`.
ExactSearched(viki_id, viki_title, results, catalog, q) ==
  IF results = << >> THEN Returns(Unmatched(viki_id, viki_title, ""))
  ELSE ExactChoice(viki_id, viki_title, results, catalog,
                   ScanTitles(results, 1, 0, q.norm, q.norm_wo),
                   ScanSlugs(results, q.slug), ScanSlugs(results, q.slug_wo),
                   FirstFound(catalog, SlugTries(q.slug)), q)

\* norm_query, norm_query_wo, slug_query, slug_query_wo
QueryForms(viki_title) ==
  [norm |-> _norm(viki_title), norm_wo |-> _norm_no_article(viki_title),
   slug |-> _slugify(viki_title),
   slug_wo |-> _slugify(ReSubArticle(viki_title, TRUE))]

\* trakt = [search |-> the search exchange, by_slug |-> the by-slug catalog]
_tier_exact_trakt(viki_id, viki_title, trakt_available, trakt) ==
  IF ~trakt_available
    THEN Returns(Unmatched(viki_id, viki_title, "Trakt not configured"))
  ELSE ExactSearched(viki_id, viki_title, search_shows(trakt.search), trakt.by_slug,
                     QueryForms(viki_title))

----------------------------------------------------------------------------
\* Tier 3: TVDB search + Trakt lookup by TVDB id (ShowMatcher._tier_tvdb).
\*
\* tvdb = [login  |-> Http(status, TRUE, [data_null, token]),
\*         search |-> function: query -> Http(status, TRUE, <<series, ...>>),
\*         detail |-> function: TVDB id -> Http(status, TRUE, [name, aliases])]
\* xref = the tracking platform's by-TVDB-id endpoint (see get_show_by_tvdb).

\* Python `a or b` on Optional[int]
OrId(a, b) == IF Truthy(a) THEN a ELSE b

\* One element of a TVDB search response; aliases is a list of strings.
Series(tvdb_id, id, name, aliases) ==
  [tvdb_id |-> tvdb_id, id |-> id, name |-> name, aliases |-> aliases]

\* tvdb.get(".../v4/search", params={"query": query, "type": "series"})
TvdbSearch(tvdb, query) ==
  IF query \in DOMAIN tvdb.search THEN tvdb.search[query] ELSE Http("200", TRUE, <<>>)

\* tvdb.get(".../v4/series/{tvdb_id}")
TvdbDetail(tvdb, tvdb_id) ==
  IF tvdb_id \in DOMAIN tvdb.detail THEN tvdb.detail[tvdb_id]
  ELSE Http("404", TRUE, [name |-> NoneStr, aliases |-> <<>>])

\* PickSeries comparing the primary name only.
PickSeriesByNameOnly(results, norm_query) ==
  LET hits == {i \in 1..Len(results) : _norm(results[i].name) = norm_query}
  IN IF hits = {} THEN 1 ELSE CHOOSE i \in hits : \A j \in hits : i <= j

\* The index of the search result picked by _tier_tvdb: the first whose
\* normalised name or one of whose aliases equals the normalised query, else
\* the first result.
PickSeries(results, norm_query) ==
  LET hits == {i \in 1..Len(results) :
                 \/ _norm(results[i].name) = norm_query
                 \/ \E k \in 1..Len(results[i].aliases) :
                       _norm(results[i].aliases[k]) = norm_query}
  IN IF hits = {} THEN 1 ELSE CHOOSE i \in hits : \A j \in hits : i <= j

\* chosen.get("tvdb_id") or chosen.get("id") of the picked result
PickedId(results, norm_query) ==
  OrId(results[PickSeries(results, norm_query)].tvdb_id,
       results[PickSeries(results, norm_query)].id)

\* The login steps shared by _tier_tvdb and _tier_tvdb_aliases: "ok", or
\* "error" (RequestException, caught by the tier), "failed" (status not 200),
\* "raise" (the body's "data" is null: AttributeError, not caught),
\* "no_token".
TvdbLogin(login) ==
  IF login.status = "timeout" THEN "error"
  ELSE IF login.status # "200" THEN "failed"
  ELSE IF login.data.data_null THEN "raise"
  ELSE IF ~login.data.token THEN "no_token"
  ELSE "ok"

\* The tail shared by the TVDB tiers: cross-reference tvdb_id to Trakt and
\* build the result.
CrossReferenced(viki_id, viki_title, t_show, tvdb_id, confidence, method, note2, note3) ==
  IF ~t_show.found THEN Returns(Unmatched(viki_id, viki_title, note2))
  ELSE IF ~Truthy(t_show.trakt) THEN Returns(Unmatched(viki_id, viki_title, note3))
  ELSE Returns(MatchResult(viki_id, viki_title, t_show.trakt, t_show.slug,
                           t_show.title, confidence, method, tvdb_id, ""))

CrossReference(viki_id, viki_title, trakt_available, xref, tvdb_id, confidence, method, note1, note2, note3) ==
  IF ~trakt_available THEN Returns(Unmatched(viki_id, viki_title, note1))
  ELSE CrossReferenced(viki_id, viki_title, get_show_by_tvdb(xref, tvdb_id), tvdb_id,
                       confidence, method, note2, note3)

\* The tier once the search has answered.
TvdbSearched(viki_id, viki_title, trakt_available, xref, search_resp) ==
  IF search_resp.status = "timeout" THEN Returns(Unmatched(viki_id, viki_title, "str(e)"))
  ELSE IF search_resp.status # "200"
    THEN Returns(Unmatched(viki_id, viki_title, "TVDB search failed"))
  ELSE IF search_resp.data = << >>
    THEN Returns(Unmatched(viki_id, viki_title, "TVDB no results"))
  ELSE IF ~Truthy(PickedId(search_resp.data, _norm(viki_title)))
    THEN Returns(Unmatched(viki_id, viki_title, "TVDB id not found"))
  ELSE CrossReference(viki_id, viki_title, trakt_available, xref,
                      PickedId(search_resp.data, _norm(viki_title)), 95, "tvdb",
                      "Trakt not configured", "Trakt no result for TVDB id",
                      "Trakt show missing ids")

\* The tier once the login has ended as `login` (see TvdbLogin).
TvdbLoggedIn(viki_id, viki_title, trakt_available, tvdb, xref, login) ==
  IF login = "raise" THEN Raises(viki_id, viki_title)
  ELSE IF login = "error" THEN Returns(Unmatched(viki_id, viki_title, "str(e)"))
  ELSE IF login = "failed" THEN Returns(Unmatched(viki_id, viki_title, "TVDB login failed"))
  ELSE IF login = "no_token" THEN Returns(Unmatched(viki_id, viki_title, "TVDB token missing"))
  ELSE TvdbSearched(viki_id, viki_title, trakt_available, xref,
                    TvdbSearch(tvdb, viki_title))

_tier_tvdb(viki_id, viki_title, api_key, trakt_available, tvdb, xref) ==
  IF ~api_key THEN Returns(Unmatched(viki_id, viki_title, "Missing TVDB_API_KEY"))
  ELSE TvdbLoggedIn(viki_id, viki_title, trakt_available, tvdb, xref,
                    TvdbLogin(tvdb.login))

----------------------------------------------------------------------------
\* Tier 3b: TVDB alias matching (ShowMatcher._tier_tvdb_aliases).

\* results[:10]
TopResults == 10

\* best_match: None, or the tuple (tvdb_id, matched_name, confidence, method)
NoBest == [set |-> FALSE, tvdb_id |-> NoneId, confidence |-> 0, method |-> NULL]
Best(tvdb_id, confidence, method) ==
  [set |-> TRUE, tvdb_id |-> tvdb_id, confidence |-> confidence, method |-> method]

\* One element of a detail record's alias list.
Alias(language, name) == [language |-> language, name |-> name]

\* Python truthiness of a text value
TruthyName(s) == s # NoneStr /\ s # << >>

\* alias_item.get("language") == "eng" and alias_item.get("name"); << >> when falsy
AliasName(alias_item) ==
  IF alias_item.language = "eng" THEN OrEmpty(alias_item.name) ELSE << >>

RECURSIVE ScanAliases(_, _, _, _, _, _, _)
\* The loop over a detail record's aliases, from alias k on.
ScanAliases(aliases, k, tvdb_id, best_match, best_confidence, norm_query, norm_query_wo) ==
  IF k > Len(aliases)
    THEN [best_match |-> best_match, best_confidence |-> best_confidence]
  ELSE IF AliasName(aliases[k]) = << >>
    THEN ScanAliases(aliases, k + 1, tvdb_id, best_match, best_confidence,
                     norm_query, norm_query_wo)
  ELSE IF _norm(AliasName(aliases[k])) = norm_query
    THEN [best_match |-> Best(tvdb_id, 92, "tvdb_alias_match"),
          best_confidence |-> best_confidence]
  ELSE IF _norm_no_article(AliasName(aliases[k])) = norm_query_wo /\ best_confidence < 82
    THEN ScanAliases(aliases, k + 1, tvdb_id,
                     Best(tvdb_id, 82, "tvdb_alias_match_article"), 82,
                     norm_query, norm_query_wo)
  ELSE ScanAliases(aliases, k + 1, tvdb_id, best_match, best_confidence,
                   norm_query, norm_query_wo)

\* The alias loop entered with the state st = [best_match, best_confidence].
ScanAliasesFrom(aliases, tvdb_id, st, norm_query, norm_query_wo) ==
  ScanAliases(aliases, 1, tvdb_id, st.best_match, st.best_confidence,
              norm_query, norm_query_wo)

\* best_match and best_confidence after the check of the primary name for an
\* article-stripped match (by_article: it matches and nothing as good is held).
AfterPrimary(by_article, tvdb_id, best_match, best_confidence) ==
  [best_match |-> IF by_article THEN Best(tvdb_id, 85, "tvdb_alias_primary_article")
                  ELSE best_match,
   best_confidence |-> IF by_article THEN 85 ELSE best_confidence]

RECURSIVE ScanDetails(_, _, _, _, _, _, _)
\* ScanDetailsNext without the early exit: every top result is examined.
ScanDetailsNextToTheEnd(results, i, after, tvdb, norm_query, norm_query_wo) ==
  ScanDetails(results, i + 1, after.best_match,
              IF after.best_match.set /\ after.best_match.confidence > after.best_confidence
                THEN after.best_match.confidence ELSE after.best_confidence,
              tvdb, norm_query, norm_query_wo)

\* End of one iteration over the search results: `if best_match and
\* best_match[2] >= 0.92: break`, else the next result.
ScanDetailsNext(results, i, after, tvdb, norm_query, norm_query_wo) ==
  IF after.best_match.set /\ after.best_match.confidence >= 92
    THEN after.best_match
  ELSE ScanDetails(results, i + 1, after.best_match, after.best_confidence, tvdb,
                   norm_query, norm_query_wo)

\* One iteration once the detail record `data` of tvdb_id is fetched.
CheckDetail(results, i, tvdb_id, data, best_match, best_confidence, tvdb, norm_query, norm_query_wo) ==
  IF TruthyName(data.name) /\ _norm(data.name) = norm_query
    THEN Best(tvdb_id, 95, "tvdb_alias_primary")
  ELSE ScanDetailsNext(results, i,
         ScanAliasesFrom(data.aliases, tvdb_id,
                         AfterPrimary(TruthyName(data.name)
                                        /\ _norm_no_article(data.name) = norm_query_wo
                                        /\ best_confidence < 85,
                                      tvdb_id, best_match, best_confidence),
                         norm_query, norm_query_wo),
         tvdb, norm_query, norm_query_wo)

\* ScanDetails giving up at the first detail request that fails.
ScanDetailsAbortOnFailure(results, i, best_match, best_confidence, tvdb, norm_query, norm_query_wo) ==
  IF i > Len(results) \/ i > TopResults THEN best_match
  ELSE IF ~Truthy(OrId(results[i].tvdb_id, results[i].id))
    THEN ScanDetails(results, i + 1, best_match, best_confidence, tvdb,
                     norm_query, norm_query_wo)
  ELSE IF TvdbDetail(tvdb, OrId(results[i].tvdb_id, results[i].id)).status # "200"
    THEN NoBest
  ELSE CheckDetail(results, i, OrId(results[i].tvdb_id, results[i].id),
                   TvdbDetail(tvdb, OrId(results[i].tvdb_id, results[i].id)).data,
                   best_match, best_confidence, tvdb, norm_query, norm_query_wo)

\* The loop over the top search results, from result i on; yields best_match.
\* A result without id, or whose detail request fails, is skipped.
ScanDetails(results, i, best_match, best_confidence, tvdb, norm_query, norm_query_wo) ==
  IF i > Len(results) \/ i > TopResults THEN best_match
  ELSE IF ~Truthy(OrId(results[i].tvdb_id, results[i].id))
          \/ TvdbDetail(tvdb, OrId(results[i].tvdb_id, results[i].id)).status # "200"
    THEN ScanDetails(results, i + 1, best_match, best_confidence, tvdb,
                     norm_query, norm_query_wo)
  ELSE CheckDetail(results, i, OrId(results[i].tvdb_id, results[i].id),
                   TvdbDetail(tvdb, OrId(results[i].tvdb_id, results[i].id)).data,
                   best_match, best_confidence, tvdb, norm_query, norm_query_wo)

\* The tier once the scan has ended with best_match.
AliasesScanned(viki_id, viki_title, trakt_available, xref, best_match) ==
  IF ~best_match.set THEN Returns(Unmatched(viki_id, viki_title, ""))
  ELSE CrossReference(viki_id, viki_title, trakt_available, xref, best_match.tvdb_id,
                      best_match.confidence, best_match.method, "", "", "")

\* The tier once the search has answered.
AliasesSearched(viki_id, viki_title, trakt_available, tvdb, xref, search_resp) ==
  IF search_resp.status # "200" THEN Returns(Unmatched(viki_id, viki_title, ""))
  ELSE IF search_resp.data = << >> THEN Returns(Unmatched(viki_id, viki_title, ""))
  ELSE AliasesScanned(viki_id, viki_title, trakt_available, xref,
                      ScanDetails(search_resp.data, 1, NoBest, 0, tvdb,
                                  _norm(viki_title), _norm_no_article(viki_title)))

\* The tier once the login has ended as `login` (see TvdbLogin).
AliasesLoggedIn(viki_id, viki_title, trakt_available, tvdb, xref, login) ==
  IF login = "raise" THEN Raises(viki_id, viki_title)
  ELSE IF login # "ok" THEN Returns(Unmatched(viki_id, viki_title, ""))
  ELSE AliasesSearched(viki_id, viki_title, trakt_available, tvdb, xref,
                       TvdbSearch(tvdb, viki_title))

_tier_tvdb_aliases(viki_id, viki_title, api_key, trakt_available, tvdb, xref) ==
  IF ~api_key THEN Returns(Unmatched(viki_id, viki_title, ""))
  ELSE AliasesLoggedIn(viki_id, viki_title, trakt_available, tvdb, xref,
                       TvdbLogin(tvdb.login))

----------------------------------------------------------------------------
\* Tier 4: MyDramaList alias resolution (ShowMatcher._tier_mdl).
\*
\* mdl = what MdlClient.search_alias returns: found = FALSE is None (nothing
\* found, or any scraping failure, which the client swallows).

\* Whether the object returned by get_tvdb_session() has the attributes
\* base_url and headers read by the tier's alias loop.  CachedSession defines
\* neither, so evaluating the request's arguments raises AttributeError, which
\* the tier's `except Exception` turns into an unmatched result.
CachedSessionWithBaseUrl == TRUE
CachedSessionHasBaseUrl == FALSE

RECURSIVE TryAliases(_, _, _, _, _, _, _)
\* One iteration once the TVDB search for the alias has answered with
\* search_resp; t_show is the cross-reference of its first result.
TryAlias(viki_id, viki_title, trakt_available, english_aliases, i, tvdb, xref, search_resp, t_show) ==
  IF search_resp.status = "timeout" THEN Returns(Unmatched(viki_id, viki_title, ""))
  ELSE IF \/ search_resp.status # "200"
          \/ search_resp.data = << >>
          \/ ~Truthy(search_resp.data[1].tvdb_id)
          \/ ~trakt_available
          \/ ~t_show.found
          \/ ~Truthy(t_show.trakt)
    THEN TryAliases(viki_id, viki_title, trakt_available, english_aliases, i + 1,
                    tvdb, xref)
  ELSE Returns(MatchResult(viki_id, viki_title, t_show.trakt, t_show.slug,
                           t_show.title, 95 - (i * 3), "mdl",
                           search_resp.data[1].tvdb_id, ""))

\* get_show_by_tvdb(results[0].get("tvdb_id")) for a non-empty 200 response
FirstXref(xref, search_resp) ==
  IF search_resp.status = "200" /\ search_resp.data # << >>
    THEN get_show_by_tvdb(xref, search_resp.data[1].tvdb_id)
    ELSE NoShow

\* The loop `for i, alias in enumerate(english_aliases)`, from position i on
\* (positions counted from 0 as in the source).
TryAliases(viki_id, viki_title, trakt_available, english_aliases, i, tvdb, xref) ==
  IF i >= Len(english_aliases) THEN Returns(Unmatched(viki_id, viki_title, ""))
  ELSE TryAlias(viki_id, viki_title, trakt_available, english_aliases, i, tvdb, xref,
                TvdbSearch(tvdb, english_aliases[i + 1]),
                FirstXref(xref, TvdbSearch(tvdb, english_aliases[i + 1])))

_tier_mdl(viki_id, viki_title, api_key, trakt_available, mdl, tvdb, xref) ==
  IF ~mdl.found THEN Returns(Unmatched(viki_id, viki_title, ""))
  ELSE IF mdl.english_aliases = <<>> THEN Returns(Unmatched(viki_id, viki_title, ""))
  ELSE IF ~api_key THEN Returns(Unmatched(viki_id, viki_title, ""))
  ELSE IF ~CachedSessionHasBaseUrl THEN Returns(Unmatched(viki_id, viki_title, ""))
  ELSE TryAliases(viki_id, viki_title, trakt_available, mdl.english_aliases, 0,
                  tvdb, xref)

----------------------------------------------------------------------------
\* The match cache: table viki_trakt_matches, one row per viki_id.

NoRow == [absent |-> TRUE]

\* MatchDB.save rewriting the table to the one row it is given.
MatchDB_saveAlone(table, result) ==
  [v \in DOMAIN table |->
     IF v = result.viki_id
       THEN [viki_id |-> result.viki_id, viki_title |-> result.viki_title,
             trakt_id |-> result.trakt_id, trakt_slug |-> result.trakt_slug,
             trakt_title |-> result.trakt_title, tvdb_id |-> result.tvdb_id,
             confidence |-> result.match_confidence, method |-> result.match_method,
             notes |-> result.notes]
       ELSE NoRow]

\* MatchDB.save as an update that leaves a column alone when the result has
\* no value for it.
MatchDB_saveMerging(table, result) ==
  [table EXCEPT ![result.viki_id] =
     IF @ = NoRow
       THEN [viki_id |-> result.viki_id, viki_title |-> result.viki_title,
             trakt_id |-> result.trakt_id, trakt_slug |-> result.trakt_slug,
             trakt_title |-> result.trakt_title, tvdb_id |-> result.tvdb_id,
             confidence |-> result.match_confidence, method |-> result.match_method,
             notes |-> result.notes]
       ELSE [viki_id |-> result.viki_id, viki_title |-> result.viki_title,
             trakt_id |-> IF result.trakt_id = NoneId THEN @.trakt_id ELSE result.trakt_id,
             trakt_slug |-> IF result.trakt_slug = NoneStr THEN @.trakt_slug
                            ELSE result.trakt_slug,
             trakt_title |-> IF result.trakt_title = NoneStr THEN @.trakt_title
                             ELSE result.trakt_title,
             tvdb_id |-> IF result.tvdb_id = NoneId THEN @.tvdb_id ELSE result.tvdb_id,
             confidence |-> result.match_confidence, method |-> result.match_method,
             notes |-> result.notes]]

\* MatchDB.save: INSERT OR REPLACE of the row built from the result
\* (matched_at and updated_at, both wall-clock stamps, are left out).
MatchDB_save(table, result) ==
  [table EXCEPT ![result.viki_id] =
     [viki_id |-> result.viki_id, viki_title |-> result.viki_title,
      trakt_id |-> result.trakt_id, trakt_slug |-> result.trakt_slug,
      trakt_title |-> result.trakt_title, tvdb_id |-> result.tvdb_id,
      confidence |-> result.match_confidence, method |-> result.match_method,
      notes |-> result.notes]]

\* MatchDB.get: the row of viki_id rebuilt as a MatchResult, or NoRow (None).
MatchDB_get(table, viki_id) ==
  IF table[viki_id] = NoRow THEN NoRow
  ELSE LET row == table[viki_id]
       IN MatchResult(row.viki_id, row.viki_title, row.trakt_id, row.trakt_slug,
                      row.trakt_title, row.confidence, row.method, row.tvdb_id,
                      row.notes)

----------------------------------------------------------------------------
\* Inputs.

\* Number of match() invocations explored.
MaxCalls == 2

T_x == <<"x">>
T_X == <<"X">>
T_y == <<"y">>
T_Ax == <<"A", " ", "x">>
T_bang == <<"!">>
Slug_x2024 == <<"x","-","2","0","2","4">>

VikiIds == {<<"1">>, <<"2">>}

\* viki_show dicts: titles is the dict's items in iteration order.
VikiShow(id, viki_id, titles) == [id |-> id, viki_id |-> viki_id, titles |-> titles]
VikiShows ==
  { VikiShow(<<"1">>, NoneStr, << <<"en", T_x>> >>),
    VikiShow(NoneStr, <<"1">>, << <<"ko", T_bang>>, <<"en", T_Ax>> >>),
    VikiShow(<<"2">>, NoneStr, << <<"ko", T_bang>> >>),
    VikiShow(<<>>, <<"2">>, << >>),
    VikiShow(NoneStr, NoneStr, << <<"en", T_x>> >>) }

\* Elements of the tracking platform's search responses: a show whose title
\* normalises to "x", one that only shares the slug prefix "x", an unrelated
\* one, one without ids, and an element whose "show" is null.
ItemX == SearchItem(T_X, 1, T_x)
ItemSlug == SearchItem(T_y, 2, Slug_x2024)
ItemY == SearchItem(T_y, 3, T_y)
ItemNoId == SearchItem(T_x, NoneId, NoneStr)

SearchResults ==
  { << >>, <<ItemX>>, <<ItemY>>, <<ItemY, ItemX>>, <<ItemSlug>>, <<ItemNoId>>,
    <<ItemY, ItemNoId>>, <<NullShowItem>>, <<ItemX, NullShowItem>>,
    <<ItemY, NullShowItem>> }

SearchExchanges ==
  { Http("200", TRUE, items) : items \in SearchResults }
  \cup { Http("503", TRUE, << >>), Http("404", TRUE, << >>),
         Http("timeout", TRUE, << >>), Http("200", FALSE, << >>) }

SlugCatalogs ==
  { {},
    { [title |-> T_x, trakt |-> 4, slug |-> T_x] },
    { [title |-> T_x, trakt |-> NoneId, slug |-> Slug_x2024] } }

\* What the tracking platform answers to search and by-slug lookups: every
\* search exchange with an empty catalog, and the exchanges that leave the
\* decision to the slug probes with every catalog.
TraktWorld(s, c) == [search |-> s, by_slug |-> c]
ProbedExchanges ==
  { Http("200", TRUE, << >>), Http("200", TRUE, <<ItemY>>), Http("503", TRUE, << >>) }
TraktWorlds ==
  { TraktWorld(s, {}) : s \in SearchExchanges }
  \cup { TraktWorld(s, c) : s \in ProbedExchanges, c \in SlugCatalogs }

\* What the tracking platform answers to lookups by TVDB id.
Found(title, trakt, slug) == [found |-> TRUE, title |-> title, trakt |-> trakt, slug |-> slug]
Xrefs ==
  { << >>,
    (11 :> Found(T_X, 5, T_x)) @@ (12 :> Found(T_y, 6, T_y)),
    (11 :> Found(T_X, NoneId, T_x)) }

TvdbLogins ==
  { Http("200", TRUE, [data_null |-> FALSE, token |-> TRUE]),
    Http("200", TRUE, [data_null |-> FALSE, token |-> FALSE]),
    Http("200", TRUE, [data_null |-> TRUE, token |-> FALSE]),
    Http("401", TRUE, [data_null |-> FALSE, token |-> FALSE]),
    Http("timeout", TRUE, [data_null |-> FALSE, token |-> FALSE]) }

TvdbSearchResults ==
  { << >>,
    << Series(NoneId, 11, T_X, << >>) >>,
    << Series(12, NoneId, T_y, << T_x >>) >>,
    << Series(NoneId, NoneId, T_y, << >>), Series(NoneId, 11, T_y, << >>) >>,
    << Series(12, NoneId, T_y, << >>), Series(NoneId, 11, T_y, << >>) >> }

TvdbSearchExchanges ==
  { Http("200", TRUE, r) : r \in TvdbSearchResults }
  \cup { Http("503", TRUE, << >>), Http("timeout", TRUE, << >>) }

Queries == {T_x, T_Ax, T_bang, T_y}

TvdbDetails ==
  { << >>,
    (11 :> Http("200", TRUE, [name |-> T_x, aliases |-> << >>]))
      @@ (12 :> Http("200", TRUE, [name |-> T_y, aliases |-> << Alias("eng", T_Ax) >>])),
    (11 :> Http("200", TRUE, [name |-> T_y, aliases |-> << Alias("kor", T_x), Alias("eng", T_X) >>]))
      @@ (12 :> Http("503", TRUE, [name |-> NoneStr, aliases |-> << >>])) }

\* What the intermediary catalog answers: the same search response to every
\* query of one invocation.  When the login does not succeed nothing else is
\* requested, so one world stands for each kind of failed login.
TvdbWorld(l, s, d) == [login |-> l, search |-> [q \in Queries |-> s], detail |-> d]
LoginOk == Http("200", TRUE, [data_null |-> FALSE, token |-> TRUE])
TvdbWorlds ==
  { TvdbWorld(LoginOk, s, d) : s \in TvdbSearchExchanges, d \in TvdbDetails }
  \cup { TvdbWorld(l, Http("200", TRUE, << >>), << >>) : l \in TvdbLogins }

\* The worlds as seen by the tiers that request no series detail.
TvdbSearchWorlds == { w \in TvdbWorlds : w.detail = << >> }

\* What MdlClient.search_alias returns.
MdlWorlds ==
  { [found |-> FALSE, english_aliases |-> << >>],
    [found |-> TRUE, english_aliases |-> << >>],
    [found |-> TRUE, english_aliases |-> << T_x >>],
    [found |-> TRUE, english_aliases |-> << T_y, T_x >>] }

----------------------------------------------------------------------------
\* ShowMatcher.match as a state machine.

Procs == {1}

VARIABLES
  trakt_available,  \* ShowMatcher.trakt_available (self.trakt is set with it)
  api_key,          \* whether the environment holds TVDB_API_KEY
  cache,            \* MatchDB: the table viki_trakt_matches
  call,             \* per caller: the match() invocation it is in (see Idle)
  ncalls,           \* invocations started so far
  last_matched,     \* history: per viki_id, the last matched result match() returned
  probe,            \* a tier resolver called on its own: its arguments and outcome
  retry,            \* http_utils.retry_on_transient: the call in progress (see RetryIdle)
  tracker,          \* TokenExpiryHandler.tracker.status (token_status.json)
  now,              \* datetime.now(timezone.utc), in hours
  history,          \* history: the calls made on the TokenExpiryHandler, oldest first
  unix_time,        \* int(time.time())
  markers,          \* Viki: per video, when its watch marker was last updated (see NoMarker)
  last_watch_markers_timestamp,  \* Repository: the metadata row of that key (see NoTs)
  shows,            \* Repository: the table shows, the match columns of each row
  episodes,         \* Repository: the table episodes
  last_run          \* history: what SyncWorkflow.run() did, when it is the last step taken (see NoRun)

\* The state of notification.py.
notification == <<tracker, now, history>>

\* The state the sync workflow works on, the match cache apart.
sync == <<unix_time, markers, last_watch_markers_timestamp, shows, episodes, last_run>>

vars == <<trakt_available, api_key, cache, call, ncalls, last_matched, probe, retry,
          notification, sync>>

\* The state of the modules other than the matcher.
others == <<retry, notification, sync>>

\* A timestamp field holding None.
NoTime == 0 - 1

\* The videos the user can watch on Viki.
Videos == {"v1", "v2"}

\* No marker for the video.
NoMarker == 0
\* No metadata row of key last_watch_markers_timestamp.
NoTs == 0
\* No row in the table shows / episodes.
NoShowRow == [absent |-> TRUE]
NoEpisode == [absent |-> TRUE]

\* The last step was not a run.  Of a run, outcome is where it ended
\* ("fetch_failed", "no_new", "raised" out of the episode upserts, "done");
\* submitted is the number of episodes given to sync_watched and
\* acknowledged its added + existing (both NoneId when it was not called);
\* flagged is the number of episodes the run flagged synced_to_trakt;
\* attempted are the shows given to _try_match, from_cache those of them the
\* matcher answered from its cache, without evaluating a tier.
NoRun ==
  [outcome |-> "none", submitted |-> NoneId, acknowledged |-> NoneId,
   flagged |-> 0, attempted |-> {}, from_cache |-> {}]

\* TokenStatusTracker._default_status()
DefaultStatus ==
  [current_token |-> NULL, token_status |-> "unknown", first_failure_at |-> NoTime,
   last_notification_sent_at |-> NoTime, notification_count |-> 0]

\* retry_on_transient is not being called.
RetryIdle == [pc |-> "idle"]

\* No tier resolver has been called on its own.
NoProbe == [tier |-> "none"]

\* An invocation: pc is the statement match() is at ("idle" before the first
\* call, "returned" / "raised" once it is over); show is its argument; tiers
\* lists the tier resolvers invoked so far and outs what each of them
\* yielded (the fields the acceptance tests read, see Yielded); reads and
\* writes count MatchDB.get and MatchDB.save calls; cached is what MatchDB.get returned; exact_now is what the exact-search tier
\* yields on the tracking platform's answers as of the start of the
\* invocation; nothing tells whether every external answer given to the
\* invocation so far was empty; prior is last_matched[viki_id] as of the
\* start.
NoArg == VikiShow(NoneStr, NoneStr, << >>)
Idle ==
  [pc |-> "idle", show |-> NoArg, viki_id |-> NoneStr, viki_title |-> NoneStr,
   cached |-> NoRow, exact_now |-> Raises(NoneStr, NoneStr), result |-> NoRow,
   tiers |-> << >>, outs |-> << >>, nothing |-> TRUE, reads |-> 0, writes |-> 0,
   error |-> NULL, prior |-> NoRow]

Over(p) == call[p].pc \in {"idle", "returned", "raised"}

Init ==
  /\ trakt_available \in BOOLEAN
  /\ api_key \in BOOLEAN
  /\ cache = [v \in VikiIds |-> NoRow]
  /\ call = [p \in Procs |-> Idle]
  /\ ncalls = 0
  /\ last_matched = [v \in VikiIds |-> NoRow]
  /\ probe = NoProbe
  /\ retry = RetryIdle
  /\ tracker = DefaultStatus
  /\ now = 0
  /\ history = << >>
  /\ unix_time = 1
  /\ markers = [v \in Videos |-> NoMarker]
  /\ last_watch_markers_timestamp = NoTs
  /\ shows = [s \in VikiIds |-> NoShowRow]
  /\ episodes = [v \in Videos |-> NoEpisode]
  /\ last_run = NoRun

\* viki_show.get("id") or viki_show.get("viki_id")
IdOf(viki_show) == IF TruthyName(viki_show.id) THEN viki_show.id ELSE viki_show.viki_id

\* titles.get("en") or next(iter(titles.values()), f"Unknown ({viki_id})")
TitleOf(viki_show, viki_id) ==
  LET titles == viki_show.titles
      en == {i \in 1..Len(titles) : titles[i][1] = "en" /\ TruthyName(titles[i][2])}
  IN IF en # {} THEN titles[CHOOSE i \in en : TRUE][2]
     ELSE IF titles # << >> THEN titles[1][2]
     ELSE <<"U","n","k","n","o","w","n"," ","(">> \o viki_id \o <<")">>

\* Acceptance thresholds of match(): strict for the first four, >= for the
\* relaxed re-check.
ExactThreshold == 85
TvdbThreshold == 70
AliasThreshold == 65
MdlThreshold == 60
FallbackThreshold == 80

\* return result (history: remember it when matched)
Return(p, c, result) ==
  /\ call' = [call EXCEPT ![p] = [c EXCEPT !.pc = "returned", !.result = result]]
  /\ last_matched' = IF is_matched(result)
                       THEN [last_matched EXCEPT ![c.viki_id] = result]
                       ELSE last_matched

\* self.db.save(result); return result
SaveAndReturn(p, c, result) ==
  /\ cache' = MatchDB_save(cache, result)
  /\ Return(p, [c EXCEPT !.writes = @ + 1], result)

\* raise out of match()
Raise(p, c, error) ==
  /\ call' = [call EXCEPT ![p] = [c EXCEPT !.pc = "raised", !.error = error]]
  /\ UNCHANGED <<cache, last_matched>>

\* go on to the statement at `next`
Goto(p, c, next) ==
  /\ call' = [call EXCEPT ![p] = [c EXCEPT !.pc = next]]
  /\ UNCHANGED <<cache, last_matched>>

\* c once the tier resolver `tier` has yielded `out`; quiet tells whether the
\* external answers it was given were empty
Yielded(out) ==
  [raised |-> out.raised, trakt_id |-> out.result.trakt_id,
   trakt_slug |-> out.result.trakt_slug,
   match_confidence |-> out.result.match_confidence,
   match_method |-> out.result.match_method]
Invoked(c, tier, out, quiet) ==
  [c EXCEPT !.tiers = Append(@, tier), !.outs = Append(@, Yielded(out)),
            !.nothing = @ /\ quiet]

\* The tracking platform answers with zero search results and knows no slug.
TraktNothing(trakt) == trakt.search = Http("200", TRUE, << >>) /\ trakt.by_slug = {}

\* The intermediary catalog logs the caller in and answers every search with
\* zero series.
TvdbNothing(tvdb) ==
  /\ TvdbLogin(tvdb.login) = "ok"
  /\ \A q \in Queries : TvdbSearch(tvdb, q) = Http("200", TRUE, << >>)

\* The alias site has no entry for the title.
MdlNothing(mdl) == ~mdl.found

\* AfterTier accepting from the relaxed threshold on.
AfterTierRelaxed(p, c, out, threshold, next) ==
  IF out.raised THEN Raise(p, c, "AttributeError")
  ELSE IF is_matched(out.result) /\ out.result.match_confidence >= FallbackThreshold
    THEN SaveAndReturn(p, c, out.result)
  ELSE Goto(p, c, next)

\* AfterTier saving the result it rejects before going on.
AfterTierSavingRejected(p, c, out, threshold, next) ==
  IF out.raised THEN Raise(p, c, "AttributeError")
  ELSE IF is_matched(out.result) /\ out.result.match_confidence > threshold
    THEN SaveAndReturn(p, c, out.result)
  ELSE /\ call' = [call EXCEPT ![p] = [c EXCEPT !.pc = next]]
       /\ cache' = MatchDB_save(cache, out.result)
       /\ UNCHANGED last_matched

\* What match() does with the outcome `out` of a tier, c being the
\* invocation with that tier logged: an exception leaves match(); a matched result with confidence above
\* `threshold` is saved and returned; otherwise match() goes on to the
\* statement at `next`.
AfterTier(p, c, out, threshold, next) ==
  IF out.raised THEN Raise(p, c, "AttributeError")
  ELSE IF is_matched(out.result) /\ out.result.match_confidence > threshold
    THEN SaveAndReturn(p, c, out.result)
  ELSE Goto(p, c, next)

\* AfterFallback returning the explicit no-match without saving it.
AfterFallbackUnsaved(p, c, out) ==
  IF out.raised THEN Raise(p, c, "AttributeError")
  ELSE IF is_matched(out.result) /\ out.result.match_confidence >= FallbackThreshold
    THEN SaveAndReturn(p, c, out.result)
  ELSE Return(p, c,
         MatchResult(c.viki_id, c.viki_title, NoneId, NoneStr, NoneStr, 0,
                     "no_match", NoneId, "No matching show found"))
       /\ UNCHANGED cache

\* The same for the repeated exact search, accepted from FallbackThreshold
\* on, with the explicit no-match saved and returned otherwise.
AfterFallback(p, c, out) ==
  IF out.raised THEN Raise(p, c, "AttributeError")
  ELSE IF is_matched(out.result) /\ out.result.match_confidence >= FallbackThreshold
    THEN SaveAndReturn(p, c, out.result)
  ELSE SaveAndReturn(p, c,
         MatchResult(c.viki_id, c.viki_title, NoneId, NoneStr, NoneStr, 0,
                     "no_match", NoneId, "No matching show found"))

\* TvdbTried going on to the alias site, past the alias expansion.
TvdbTriedSkipsAliases(p, out, quiet) ==
  AfterTier(p, Invoked(call[p], "tvdb", out, quiet), out, TvdbThreshold, "mdl")

\* match() after each of the tiers 3, 3b and 4 and after the repeated exact
\* search has yielded `out`
TvdbTried(p, out, quiet) ==
  AfterTier(p, Invoked(call[p], "tvdb", out, quiet), out, TvdbThreshold, "tvdb_aliases")
AliasesTried(p, out, quiet) ==
  AfterTier(p, Invoked(call[p], "tvdb_aliases", out, quiet), out, AliasThreshold, "mdl")
MdlTried(p, out, quiet) ==
  AfterTier(p, Invoked(call[p], "mdl", out, quiet), out, MdlThreshold, "fallback")
Rechecked(p, out, quiet) ==
  AfterFallback(p, Invoked(call[p], "exact_trakt", out, quiet), out)

\* Lookup that never trusts the cache.
LookupIgnoresCache(p, c) == Goto(p, c, "exact_trakt")

\* The cache lookup: cached = self.db.get(viki_id), returned when matched.
Lookup(p, c) ==
  IF c.cached # NoRow /\ is_matched(c.cached)
    THEN Return(p, c, c.cached) /\ UNCHANGED cache
    ELSE Goto(p, c, "exact_trakt")

\* The invocation as match() enters it for viki_id; exact_now is what the
\* exact-search tier yields at that moment.
Entered(viki_show, viki_id, viki_title, exact_now, quiet) ==
  [Idle EXCEPT !.show = viki_show, !.viki_id = viki_id, !.viki_title = viki_title,
               !.cached = MatchDB_get(cache, viki_id), !.reads = 1,
               !.prior = last_matched[viki_id], !.exact_now = exact_now,
               !.nothing = quiet]

\* Validated with the cache read ahead of the validation.
ValidatedAfterRead(p, viki_show, viki_id, trakt) ==
  IF ~TruthyName(viki_id)
    THEN Raise(p, [Idle EXCEPT !.show = viki_show, !.reads = 1], "ValueError")
  ELSE Lookup(p, Entered(viki_show, viki_id, TitleOf(viki_show, viki_id),
                         _tier_exact_trakt(viki_id, TitleOf(viki_show, viki_id),
                                           trakt_available, trakt),
                         TraktNothing(trakt)))

\* match(viki_show) once viki_id is read from the show
Validated(p, viki_show, viki_id, trakt) ==
  IF ~TruthyName(viki_id) THEN Raise(p, [Idle EXCEPT !.show = viki_show], "ValueError")
  ELSE Lookup(p, Entered(viki_show, viki_id, TitleOf(viki_show, viki_id),
                         _tier_exact_trakt(viki_id, TitleOf(viki_show, viki_id),
                                           trakt_available, trakt),
                         TraktNothing(trakt)))

\* match(viki_show), up to and including the cache lookup; trakt is what the
\* tracking platform answers at that moment.
Call(p) ==
  /\ Over(p)
  /\ ncalls < MaxCalls
  /\ ncalls' = ncalls + 1
  /\ UNCHANGED <<trakt_available, api_key, probe, others>>
  /\ \E viki_show \in VikiShows, trakt \in TraktWorlds :
       Validated(p, viki_show, IdOf(viki_show), trakt)

\* TierExact returning early only from 0.9 up.
TierExactStricter(p) ==
  /\ call[p].pc = "exact_trakt"
  /\ UNCHANGED <<trakt_available, api_key, ncalls, probe, others>>
  /\ AfterTier(p, Invoked(call[p], "exact_trakt", call[p].exact_now, TRUE),
               call[p].exact_now, 90, "tvdb")

\* Tier 2: result = self._tier_exact_trakt(...), accepted above 0.85
TierExact(p) ==
  /\ call[p].pc = "exact_trakt"
  /\ UNCHANGED <<trakt_available, api_key, ncalls, probe, others>>
  /\ AfterTier(p, Invoked(call[p], "exact_trakt", call[p].exact_now, TRUE),
               call[p].exact_now, ExactThreshold, "tvdb")

\* Tier 3: result = self._tier_tvdb(...), accepted above 0.7
TierTvdb(p) ==
  /\ call[p].pc = "tvdb"
  /\ UNCHANGED <<trakt_available, api_key, ncalls, probe, others>>
  /\ \E tvdb \in TvdbSearchWorlds, xref \in Xrefs :
       TvdbTried(p, _tier_tvdb(call[p].viki_id, call[p].viki_title, api_key,
                               trakt_available, tvdb, xref),
                 TvdbNothing(tvdb))

\* Tier 3b: result = self._tier_tvdb_aliases(...), accepted above 0.65
TierTvdbAliases(p) ==
  /\ call[p].pc = "tvdb_aliases"
  /\ UNCHANGED <<trakt_available, api_key, ncalls, probe, others>>
  /\ \E tvdb \in TvdbWorlds, xref \in Xrefs :
       AliasesTried(p, _tier_tvdb_aliases(call[p].viki_id, call[p].viki_title,
                                          api_key, trakt_available, tvdb, xref),
                    TvdbNothing(tvdb))

\* Tier 4: result = self._tier_mdl(...), accepted above 0.6
TierMdl(p) ==
  /\ call[p].pc = "mdl"
  /\ UNCHANGED <<trakt_available, api_key, ncalls, probe, others>>
  /\ \E mdl \in MdlWorlds, tvdb \in TvdbSearchWorlds, xref \in Xrefs :
       MdlTried(p, _tier_mdl(call[p].viki_id, call[p].viki_title, api_key,
                             trakt_available, mdl, tvdb, xref),
                MdlNothing(mdl))

\* The fallback: the exact search again, on the tracking platform's answers
\* of that moment.
Fallback(p) ==
  /\ call[p].pc = "fallback"
  /\ UNCHANGED <<trakt_available, api_key, ncalls, probe, others>>
  /\ \E trakt \in TraktWorlds :
       Rechecked(p, _tier_exact_trakt(call[p].viki_id, call[p].viki_title,
                                      trakt_available, trakt),
                 TraktNothing(trakt))

Next ==
  \/ \E p \in Procs : Call(p)
  \/ \E p \in Procs : TierExact(p)
  \/ \E p \in Procs : TierTvdb(p)
  \/ \E p \in Procs : TierTvdbAliases(p)
  \/ \E p \in Procs : TierMdl(p)
  \/ \E p \in Procs : Fallback(p)

Spec == Init /\ [][Next]_vars

----------------------------------------------------------------------------
\* Two callers of match() sharing the ShowMatcher and its cache, both asking
\* for the same show id.  Each statement of match() that reads or writes the
\* cache is one step; the steps of the two callers interleave.

Callers == {1, 2}

\* The shows passed by the concurrent callers: those of VikiShows with id "1".
SameIdShows == {viki_show \in VikiShows : IdOf(viki_show) = <<"1">>}

\* What the tracking platform answers to the exact search of a concurrent
\* caller: nothing, an exact match, an unrelated show, a malformed element.
ConcTraktWorlds ==
  { TraktWorld(Http("200", TRUE, items), {}) :
      items \in { << >>, <<ItemX>>, <<ItemY>>, <<NullShowItem>> } }

ConcInit ==
  /\ trakt_available \in BOOLEAN
  /\ api_key \in BOOLEAN
  /\ cache = [v \in VikiIds |-> NoRow]
  /\ call = [p \in Callers |-> Idle]
  /\ ncalls = 0
  /\ last_matched = [v \in VikiIds |-> NoRow]
  /\ probe = NoProbe
  /\ retry = RetryIdle
  /\ tracker = DefaultStatus
  /\ now = 0
  /\ history = << >>
  /\ unix_time = 1
  /\ markers = [v \in Videos |-> NoMarker]
  /\ last_watch_markers_timestamp = NoTs
  /\ shows = [s \in VikiIds |-> NoShowRow]
  /\ episodes = [v \in Videos |-> NoEpisode]
  /\ last_run = NoRun

\* match(viki_show) by caller p, its one invocation, up to and including the
\* cache lookup
ConcCall(p) ==
  /\ call[p].pc = "idle"
  /\ ncalls' = ncalls + 1
  /\ UNCHANGED <<trakt_available, api_key, probe, others>>
  /\ \E viki_show \in SameIdShows, trakt \in ConcTraktWorlds :
       Validated(p, viki_show, IdOf(viki_show), trakt)

ConcNext ==
  \/ \E p \in Callers : ConcCall(p)
  \/ \E p \in Callers : TierExact(p)
  \/ \E p \in Callers : TierTvdb(p)
  \/ \E p \in Callers : TierTvdbAliases(p)
  \/ \E p \in Callers : TierMdl(p)
  \/ \E p \in Callers : Fallback(p)

ConcSpec == ConcInit /\ [][ConcNext]_vars

----------------------------------------------------------------------------
\* http_utils.retry_on_transient(func, max_retries, backoff_factor).
\*
\* retry = [pc, max_retries, backoff_factor, attempt, calls, outcomes, waits,
\*          response, last_exception]: pc is "loop" while the while loop runs,
\* "returned" / "raised" once the call is over; calls counts the calls of
\* func and outcomes lists what each of them gave; waits lists the arguments
\* of time.sleep, in seconds.

\* Largest max_retries explored.
MaxRetries == 3

\* The default of the parameter backoff_factor (1.0).
DefaultBackoffFactor == 1

\* What one call of func gives: a response with a status code, or an
\* exception of a class the wrapper catches.
FuncResponses == {"200", "404", "429", "503", "504"}
FuncExceptions == {"TimeoutError", "ConnectionError"}

\* response.status_code in (429, 503, 504), with every error status instead.
RetryableAnyError(status) == status # "200"

\* response.status_code in (429, 503, 504)
Retryable(status) == status \in {"429", "503", "504"}

RECURSIVE Power(_, _)
\* backoff_factor ** attempt
Power(b, k) == IF k = 0 THEN 1 ELSE b * Power(b, k - 1)

\* retry_on_transient(func, max_retries=n, backoff_factor=b) up to the while
\* loop
RetryCall ==
  /\ retry.pc = "idle"
  /\ UNCHANGED <<trakt_available, api_key, cache, call, ncalls, last_matched, probe,
                 notification, sync>>
  /\ \E n \in 0..MaxRetries, b \in {DefaultBackoffFactor, 2} :
       retry' = [pc |-> "loop", max_retries |-> n, backoff_factor |-> b, attempt |-> 0,
                 calls |-> 0, outcomes |-> << >>, waits |-> << >>, response |-> NULL,
                 last_exception |-> NULL]

\* time.sleep(backoff_factor ** attempt); attempt += 1
Backoff(r) ==
  [r EXCEPT !.waits = Append(@, Power(r.backoff_factor, r.attempt)), !.attempt = @ + 1]

\* The body of the loop once func has given `outcome`, r being the state with
\* that call counted.
Handled(r, outcome) ==
  IF outcome \in FuncExceptions
    THEN IF r.attempt < r.max_retries
           THEN Backoff([r EXCEPT !.last_exception = outcome])
           ELSE [r EXCEPT !.pc = "raised", !.last_exception = outcome]
  ELSE IF Retryable(outcome) /\ r.attempt < r.max_retries
    THEN Backoff(r)
  ELSE [r EXCEPT !.pc = "returned", !.response = outcome]

\* One evaluation of `while attempt <= max_retries` and of the loop body:
\* func is called and gives some outcome.  When the loop is left, the last
\* exception is raised if there is one, else None is returned.
RetryStep ==
  /\ retry.pc = "loop"
  /\ UNCHANGED <<trakt_available, api_key, cache, call, ncalls, last_matched, probe,
                 notification, sync>>
  /\ IF retry.attempt <= retry.max_retries
       THEN \E outcome \in FuncResponses \cup FuncExceptions :
              retry' = Handled([retry EXCEPT !.calls = @ + 1,
                                             !.outcomes = Append(@, outcome)],
                               outcome)
       ELSE retry' = [retry EXCEPT !.pc = IF retry.last_exception # NULL
                                            THEN "raised" ELSE "returned"]

RetryNext ==
  \/ RetryCall
  \/ RetryStep

\* func returns or raises within its own timeout, so the loop goes on.
RetrySpec == Init /\ [][RetryNext]_vars /\ WF_vars(RetryStep)

----------------------------------------------------------------------------
\* workflows/sync.py: SyncWorkflow.run() with matcher = ShowMatcher.match, on
\* the Repository, and the match commands of queries/match.py.

\* The clock is followed up to this second.
MaxTime == 2

\* The container (show) of a video: both are episodes of show "1".
ContainerOf(v) == <<"1">>
\* The order in which a watch-status dict lists the videos.
VideoOrder == <<"v1", "v2">>

\* What a marker and the episode metadata say of a video: watched to the
\* end, half watched, or watched with the metadata missing (duration 0);
\* credits_marker is None throughout.
WatchData ==
  { [watched_seconds |-> 95, duration |-> 100],
    [watched_seconds |-> 50, duration |-> 100],
    [watched_seconds |-> 95, duration |-> 0] }

\* get_container gives a container or None, after either of which the show
\* is upserted, or gives a container that makes the upsert of the show raise
\* (such as one with "origin": null).
ContainerAnswers == {"found", "raises"}

\* What a fresh evaluation of the tiers comes to.
TierAnswers == {"match", "no_match", "raise"}

\* The target a fresh evaluation finds, and the one the user picks by hand.
FoundTraktId == 1
ManualTraktId == 2

\* Repository.get_last_watch_markers_timestamp
get_last_watch_markers_timestamp(ts) == IF ts = NoTs THEN 1 ELSE ts

\* The markers Viki returns for ?from=from_timestamp
get_watch_progress(from_timestamp) ==
  { v \in Videos : markers[v] # NoMarker /\ markers[v] >= from_timestamp }

\* Repository.upsert_show: a new row has no match; the match columns of an
\* existing row are left alone.
upsert_show(table, viki_id) ==
  IF table[viki_id] = NoShowRow
    THEN [table EXCEPT ![viki_id] =
            [trakt_id |-> NoneId, match_source |-> NULL, match_confidence |-> NoneId,
             match_method |-> NULL]]
    ELSE table

\* STEP 2 of run(): the shows of the fetched videos are upserted, but for
\* those whose container makes the upsert raise (the exception is logged).
UpsertShows(table, fetched, containers) ==
  [s \in DOMAIN table |->
     IF (\E v \in fetched : ContainerOf(v) = s) /\ containers[s] # "raises"
       THEN upsert_show(table, s)[s]
       ELSE table[s]]

\* is_watched as upsert_episode computes it (credits_marker None)
IsWatched(data) ==
  \/ data.watched_seconds >= data.duration
  \/ data.watched_seconds * 10 >= data.duration * 9

\* Repository.upsert_episode
upsert_episode(table, video, data) ==
  IF table[video] = NoEpisode
    THEN [table EXCEPT ![video] =
            [is_watched |-> data.duration # 0 /\ IsWatched(data),
             synced_to_trakt |-> FALSE]]
    ELSE [table EXCEPT ![video] =
            [@ EXCEPT !.is_watched = IF data.duration # 0 THEN IsWatched(data) ELSE @]]

RECURSIVE UpsertEpisodes(_, _, _, _)
\* STEP 3 of run(): the videos of todo are upserted in order; the upsert of
\* an episode whose show has no row violates the foreign key and raises,
\* out of run().
UpsertEpisodes(table, show_table, todo, data) ==
  IF todo = << >> THEN [raised |-> FALSE, episodes |-> table]
  ELSE IF show_table[ContainerOf(Head(todo))] = NoShowRow
    THEN [raised |-> TRUE, episodes |-> table]
  ELSE UpsertEpisodes(upsert_episode(table, Head(todo), data[Head(todo)]),
                      show_table, Tail(todo), data)

\* Repository.get_unmatched_shows, of every show instead.
get_all_shows(table) == { s \in DOMAIN table : table[s] # NoShowRow }

\* Repository.get_unmatched_shows
get_unmatched_shows(table) ==
  { s \in DOMAIN table :
      /\ table[s] # NoShowRow
      /\ table[s].trakt_id = NoneId \/ table[s].match_source = "NONE" }

\* Repository.save_match (the update of the show)
save_match(table, viki_id, trakt_id, source, confidence, method) ==
  IF table[viki_id] = NoShowRow THEN table
  ELSE [table EXCEPT ![viki_id] =
          [trakt_id |-> trakt_id, match_source |-> source,
           match_confidence |-> confidence, match_method |-> method]]

\* Repository.clear_match
clear_match(table, viki_id) ==
  IF table[viki_id] = NoShowRow THEN table
  ELSE [table EXCEPT ![viki_id] =
          [trakt_id |-> NoneId, match_source |-> "NONE", match_confidence |-> NoneId,
           match_method |-> NULL]]

\* What the tiers of match() come to for viki_id when they are evaluated.
Fresh(viki_id, answer) ==
  IF answer = "raise" THEN Raises(viki_id, <<"A">>)
  ELSE IF answer = "match"
    THEN Returns(MatchResult(viki_id, <<"A">>, FoundTraktId, <<"a">>, <<"A">>, 100,
                             "exact_trakt", NoneId, ""))
  ELSE Returns(MatchResult(viki_id, <<"A">>, NoneId, NoneStr, NoneStr, 0, "no_match",
                           NoneId, "No matching show found"))

\* ShowMatcher.match as the workflow calls it: a matched cache entry is
\* returned as it is; otherwise the tiers are evaluated and what they come
\* to is saved and returned, unless they raise.
ShowMatcher_match(table, viki_id, answer) ==
  LET cached == MatchDB_get(table, viki_id)
      fresh == Fresh(viki_id, answer)
  IN IF cached # NoRow /\ is_matched(cached)
       THEN [raised |-> FALSE, result |-> cached, cache |-> table, tiers |-> FALSE]
     ELSE IF fresh.raised
       THEN [raised |-> TRUE, result |-> fresh.result, cache |-> table, tiers |-> TRUE]
     ELSE [raised |-> FALSE, result |-> fresh.result,
           cache |-> MatchDB_save(table, fresh.result), tiers |-> TRUE]

\* SyncWorkflow._try_match, m being what the matcher gave
try_match(table, viki_id, m) ==
  IF m.raised THEN table
  ELSE IF is_matched(m.result)
    THEN save_match(table, viki_id, m.result.trakt_id, "AUTO",
                    m.result.match_confidence, m.result.match_method)
  ELSE save_match(table, viki_id, NoneId, "NONE", NoneId, NULL)

\* Repository.get_unsynced_episodes
get_unsynced_episodes(table, show_table) ==
  { v \in DOMAIN table :
      /\ table[v] # NoEpisode
      /\ table[v].is_watched
      /\ ~table[v].synced_to_trakt
      /\ show_table[ContainerOf(v)] # NoShowRow
      /\ show_table[ContainerOf(v)].trakt_id # NoneId }

\* What the sync/history endpoint answers to n episodes: counts, or a
\* failure.
SyncResponses(n) ==
  { r \in [failed : {FALSE}, added : 0..n, existing : 0..n] : r.added + r.existing <= n }
  \cup { [failed |-> TRUE, added |-> 0, existing |-> 0] }

\* TraktAdapter.sync_watched
sync_watched(n, response) ==
  IF response.failed THEN [added |-> 0, existing |-> 0, failed |-> n]
  ELSE [added |-> response.added, existing |-> response.existing, failed |-> 0]

\* Repository.mark_episodes_synced
mark_episodes_synced(table, eps) ==
  [v \in DOMAIN table |->
     IF v \in eps THEN [table[v] EXCEPT !.synced_to_trakt = TRUE] ELSE table[v]]

\* run() returns or raises: what it leaves behind.
RunEnds(outcome, ts, s, e, c, submitted, acknowledged, flagged, attempted, from_cache) ==
  /\ last_watch_markers_timestamp' = ts
  /\ shows' = s
  /\ episodes' = e
  /\ cache' = c
  /\ last_run' =
       [outcome |-> outcome, submitted |-> submitted, acknowledged |-> acknowledged,
        flagged |-> flagged, attempted |-> attempted, from_cache |-> from_cache]

\* STEP 5 of run() and SyncWorkflow._sync_to_trakt, after the matching left
\* the tables s, e, c.
SyncToTrakt(ts, s, e, c, attempted, from_cache) ==
  LET unsynced == get_unsynced_episodes(e, s)
      trakt_episodes == { v \in unsynced : Truthy(s[ContainerOf(v)].trakt_id) }
      n == Cardinality(trakt_episodes)
  IN \/ \* dry_run, or nothing to submit
        RunEnds("done", ts, s, e, c, NoneId, NoneId, 0, attempted, from_cache)
     \/ /\ trakt_episodes # {}
        /\ \E response \in SyncResponses(n) :
              LET result == sync_watched(n, response)
                  synced_count == result.added + result.existing
              IN IF synced_count > 0
                   THEN RunEnds("done", ts, s, mark_episodes_synced(e, unsynced), c,
                                n, synced_count, Cardinality(unsynced), attempted,
                                from_cache)
                   ELSE RunEnds("done", ts, s, e, c, n, synced_count, 0, attempted,
                                from_cache)

\* STEP 4 of run(), after the upserts left the tables s and e.
MatchShows(ts, s, e) ==
  LET unmatched == get_unmatched_shows(s)
  IN \E answers \in [unmatched -> TierAnswers] :
       LET m == [x \in unmatched |-> ShowMatcher_match(cache, x, answers[x])]
           s2 == [x \in DOMAIN s |->
                    IF x \in unmatched THEN try_match(s, x, m[x])[x] ELSE s[x]]
           c2 == [x \in DOMAIN cache |->
                    IF x \in unmatched THEN m[x].cache[x] ELSE cache[x]]
       IN SyncToTrakt(ts, s2, e, c2, unmatched,
                      { x \in unmatched : ~m[x].tiers })

\* SyncWorkflow.run(dry_run=...), dry or not
Run ==
  /\ UNCHANGED <<trakt_available, api_key, call, ncalls, last_matched, probe, retry,
                 notification, unix_time, markers>>
  /\ \E fetch_ok \in BOOLEAN :
       LET from_timestamp == get_last_watch_markers_timestamp(last_watch_markers_timestamp)
           current_timestamp == unix_time
           fetched == get_watch_progress(from_timestamp)
       IN IF ~fetch_ok
            THEN RunEnds("fetch_failed", last_watch_markers_timestamp, shows, episodes,
                         cache, NoneId, NoneId, 0, {}, {})
          ELSE IF fetched = {}
            THEN RunEnds("no_new", current_timestamp, shows, episodes, cache, NoneId,
                         NoneId, 0, {}, {})
          ELSE \E containers \in [{ ContainerOf(v) : v \in fetched } -> ContainerAnswers],
                  data \in [fetched -> WatchData] :
                 LET s == UpsertShows(shows, fetched, containers)
                     up == UpsertEpisodes(episodes, s,
                                          SelectSeq(VideoOrder, LAMBDA v : v \in fetched),
                                          data)
                 IN IF up.raised
                      THEN RunEnds("raised", current_timestamp, s, up.episodes, cache,
                                   NoneId, NoneId, 0, {}, {})
                      ELSE MatchShows(current_timestamp, s, up.episodes)

\* The user watches (more of) a video: Viki updates its marker.
Watch ==
  /\ \E v \in Videos :
       /\ markers[v] # unix_time
       /\ markers' = [markers EXCEPT ![v] = unix_time]
  /\ last_run' = NoRun
  /\ UNCHANGED <<trakt_available, api_key, cache, call, ncalls, last_matched, probe,
                 retry, notification, unix_time, last_watch_markers_timestamp, shows,
                 episodes>>

\* A second passes.
TickTime ==
  /\ unix_time < MaxTime
  /\ unix_time' = unix_time + 1
  /\ last_run' = NoRun
  /\ UNCHANGED <<trakt_available, api_key, cache, call, ncalls, last_matched, probe,
                 retry, notification, markers, last_watch_markers_timestamp, shows,
                 episodes>>

\* MatchQuery.set_manual_match(viki_id, ManualTraktId)
set_manual_match ==
  /\ \E viki_id \in VikiIds :
       shows' = save_match(shows, viki_id, ManualTraktId, "MANUAL", 100, "manual")
  /\ last_run' = NoRun
  /\ UNCHANGED <<trakt_available, api_key, cache, call, ncalls, last_matched, probe,
                 retry, notification, unix_time, markers, last_watch_markers_timestamp,
                 episodes>>

\* MatchQuery.clear_match(viki_id)
clear_match_command ==
  /\ \E viki_id \in VikiIds : shows' = clear_match(shows, viki_id)
  /\ last_run' = NoRun
  /\ UNCHANGED <<trakt_available, api_key, cache, call, ncalls, last_matched, probe,
                 retry, notification, unix_time, markers, last_watch_markers_timestamp,
                 episodes>>

SyncNext ==
  \/ Run
  \/ Watch
  \/ TickTime
  \/ set_manual_match
  \/ clear_match_command

SyncSpec == Init /\ [][SyncNext]_vars

----------------------------------------------------------------------------
\* notification.py: TokenStatusTracker and TokenExpiryHandler.  Time is in
\* hours.

\* Calls of the handler drawn.
MaxEvents == 3
\* The clock is followed up to this hour.
MaxHours == 24
\* The clock is read every TickHours hours.
TickHours == 12
\* timedelta(hours=24)
NotifyWindow == 24

Tokens == {"A", "B"}

\* TokenStatusTracker.mark_token_active(token)
mark_token_active(s, token) ==
  IF token # s.current_token
    THEN [s EXCEPT !.current_token = token, !.token_status = "active",
                   !.first_failure_at = NoTime, !.last_notification_sent_at = NoTime,
                   !.notification_count = 0]
    ELSE s

should_notify_always(s, token, t) == TRUE

\* TokenStatusTracker.should_notify_about_expiry(token), the clock reading t
should_notify_about_expiry(s, token, t) ==
  IF token # s.current_token THEN TRUE
  ELSE IF s.last_notification_sent_at # NoTime
          /\ t - s.last_notification_sent_at < NotifyWindow THEN FALSE
  ELSE TRUE

\* TokenStatusTracker.mark_notification_sent(token), the clock reading t
mark_notification_sent(s, token, t) ==
  [s EXCEPT !.current_token = token, !.token_status = "expired",
            !.first_failure_at = IF @ # NoTime THEN @ ELSE t,
            !.last_notification_sent_at = t,
            !.notification_count = @ + 1]

\* TokenStatusTracker.mark_token_refreshed(new_token)
mark_token_refreshed(s, new_token) ==
  [DefaultStatus EXCEPT !.current_token = new_token, !.token_status = "active"]

\* A call as history keeps it: notified tells whether notify_token_expired
\* was called, sent whether it returned True (the notifier is enabled and
\* Pushover accepted the message).
Event(op, token, notified, sent) ==
  [op |-> op, token |-> token, at |-> now, notified |-> notified, sent |-> sent]

\* TokenExpiryHandler.mark_token_working(token)
mark_token_working ==
  /\ Len(history) < MaxEvents
  /\ \E token \in Tokens :
       /\ tracker' = mark_token_active(tracker, token)
       /\ history' = Append(history, Event("mark_token_working", token, FALSE, FALSE))
  /\ UNCHANGED <<trakt_available, api_key, cache, call, ncalls, last_matched, probe,
                 retry, now, sync>>

\* TokenExpiryHandler.handle_token_expired(token)
handle_token_expired ==
  /\ Len(history) < MaxEvents
  /\ \E token \in Tokens :
       IF should_notify_about_expiry(tracker, token, now)
         THEN /\ tracker' = mark_notification_sent(tracker, token, now)
              /\ \E sent \in BOOLEAN :
                   history' = Append(history,
                                     Event("handle_token_expired", token, TRUE, sent))
         ELSE /\ tracker' = tracker
              /\ history' = Append(history,
                                   Event("handle_token_expired", token, FALSE, FALSE))
  /\ UNCHANGED <<trakt_available, api_key, cache, call, ncalls, last_matched, probe,
                 retry, now, sync>>

\* TokenExpiryHandler.on_token_refreshed(new_token)
on_token_refreshed ==
  /\ Len(history) < MaxEvents
  /\ \E new_token \in Tokens :
       /\ tracker' = mark_token_refreshed(tracker, new_token)
       /\ history' = Append(history, Event("on_token_refreshed", new_token, FALSE, FALSE))
  /\ UNCHANGED <<trakt_available, api_key, cache, call, ncalls, last_matched, probe,
                 retry, now, sync>>

\* Time passes between two calls.
Tick ==
  /\ now + TickHours <= MaxHours
  /\ now' = now + TickHours
  /\ UNCHANGED <<trakt_available, api_key, cache, call, ncalls, last_matched, probe,
                 retry, tracker, history, sync>>

NotifyNext ==
  \/ mark_token_working
  \/ handle_token_expired
  \/ on_token_refreshed
  \/ Tick

NotifySpec == Init /\ [][NotifyNext]_vars

----------------------------------------------------------------------------
\* The tier resolvers called on their own, each once, on arguments and
\* external answers drawn from the sets below.

\* Longest search response drawn.
MaxResults == 2

RECURSIVE ListsUpTo(_, _)
\* The lists over S of length at most n
ListsUpTo(S, n) ==
  IF n = 0 THEN { << >> }
  ELSE ListsUpTo(S, n - 1)
       \cup { Append(l, x) : l \in { m \in ListsUpTo(S, n - 1) : Len(m) = n - 1 }, x \in S }

T_Abang == <<"A", " ", "!">>
Slug_ax2020 == <<"a","-","x","-","2","0","2","0">>
Slug_x2025 == <<"x","-","2","0","2","5">>
Slug_x2026 == <<"x","-","2","0","2","6">>
Slug_y2025 == <<"y","-","2","0","2","5">>

ProbeTitles == {T_x, T_Ax, T_bang, T_y, T_Abang}

\* Further elements of search responses: a show titled "A x", and a show
\* titled "x" whose slug starts with "a-x".
ItemAx == SearchItem(T_Ax, 7, <<"a","-","x">>)
ItemArtSlug == SearchItem(T_x, 8, Slug_ax2020)
ProbeItems == {ItemX, ItemAx, ItemSlug, ItemY, ItemNoId, ItemArtSlug, NullShowItem}

ProbeCatalogs ==
  { {},
    { [title |-> T_x, trakt |-> 4, slug |-> T_x] },
    { [title |-> T_x, trakt |-> NoneId, slug |-> Slug_x2024] },
    { [title |-> T_x, trakt |-> 25, slug |-> Slug_x2025],
      [title |-> T_x, trakt |-> 24, slug |-> Slug_x2024] },
    { [title |-> T_x, trakt |-> 26, slug |-> Slug_x2026],
      [title |-> T_x, trakt |-> 24, slug |-> Slug_x2024] },
    { [title |-> T_x, trakt |-> 26, slug |-> Slug_x2026] },
    { [title |-> T_x, trakt |-> 4, slug |-> T_x],
      [title |-> T_x, trakt |-> 25, slug |-> Slug_x2025] },
    { [title |-> T_y, trakt |-> 31, slug |-> Slug_y2025] } }

\* self._tier_exact_trakt(viki_show, viki_title) with the search answering
\* `results` and the by-slug endpoint holding `catalog`
ExactProbed(viki_title, results, catalog) ==
  [tier |-> "exact_trakt", viki_title |-> viki_title, results |-> results,
   catalog |-> catalog,
   out |-> _tier_exact_trakt(<<"1">>, viki_title, trakt_available,
                             TraktWorld(Http("200", TRUE, results), catalog))]

ProbeExact ==
  /\ probe = NoProbe
  /\ ncalls = 0
  /\ UNCHANGED <<trakt_available, api_key, cache, call, ncalls, last_matched, others>>
  /\ \E viki_title \in ProbeTitles, results \in ListsUpTo(ProbeItems, MaxResults),
        catalog \in ProbeCatalogs :
       probe' = ExactProbed(viki_title, results, catalog)

\* Elements of TVDB search responses: name equal to "x", an alias equal to
\* "x", no match, no id.
ProbeSeries ==
  { Series(NoneId, 11, T_X, << >>),
    Series(12, NoneId, T_y, << T_x >>),
    Series(NoneId, 13, T_y, << >>),
    Series(NoneId, NoneId, T_y, << >>) }

\* Search responses longer than the alias tier looks at: the only series
\* whose detail can match stands last, at position TopResults + 1 or at
\* position TopResults.
BeyondTop == [i \in 1..(TopResults + 1) |->
                IF i <= TopResults THEN Series(NoneId, 13, T_y, << >>)
                ELSE Series(NoneId, 11, T_X, << >>)]
WithinTop == [i \in 1..TopResults |->
                IF i < TopResults THEN Series(NoneId, 13, T_y, << >>)
                ELSE Series(NoneId, 11, T_X, << >>)]

ProbeSearches ==
  { Http("200", TRUE, r) : r \in ListsUpTo(ProbeSeries, MaxResults) }
  \cup { Http("503", TRUE, << >>), Http("timeout", TRUE, << >>) }

ProbeXrefs ==
  { << >>,
    (11 :> Found(T_X, 5, T_x)) @@ (12 :> Found(T_y, 6, T_y)) @@ (13 :> Found(T_y, 9, T_y)),
    (12 :> Found(T_y, 6, T_y)) @@ (13 :> Found(T_y, 9, T_y)),
    (11 :> Found(T_X, NoneId, T_x)) @@ (12 :> Found(T_y, 6, T_y)) }

\* Detail records: primary name "X"; an English alias "X"; primary name
\* "A x"; an English alias "A x"; nothing alike; and a failed request.
DetailName == Http("200", TRUE, [name |-> T_X, aliases |-> << >>])
DetailAlias ==
  Http("200", TRUE, [name |-> T_y, aliases |-> << Alias("kor", T_x), Alias("eng", T_X) >>])
DetailArticle == Http("200", TRUE, [name |-> T_Ax, aliases |-> << >>])
DetailAliasArticle ==
  Http("200", TRUE, [name |-> T_y, aliases |-> << Alias("eng", T_Ax) >>])
DetailOther == Http("200", TRUE, [name |-> T_y, aliases |-> << >>])
DetailDown == Http("503", TRUE, [name |-> NoneStr, aliases |-> << >>])

ProbeDetails ==
  { (11 :> d11) @@ (12 :> d12) @@ (13 :> d13) :
      d11 \in {DetailName, DetailAlias, DetailDown},
      d12 \in {DetailAlias, DetailArticle, DetailAliasArticle},
      d13 \in {DetailName, DetailOther, DetailArticle} }

TvdbTitles == {T_x, T_Ax}

\* self._tier_tvdb(viki_show, viki_title) with TVDB answering the login with
\* `login` and the search with `search`
TvdbProbed(viki_title, login, search, xref) ==
  [tier |-> "tvdb", viki_title |-> viki_title, login |-> login, search |-> search,
   xref |-> xref,
   out |-> _tier_tvdb(<<"1">>, viki_title, api_key, trakt_available,
                      TvdbWorld(login, search, << >>), xref)]

ProbeTvdb ==
  /\ probe = NoProbe
  /\ ncalls = 0
  /\ UNCHANGED <<trakt_available, api_key, cache, call, ncalls, last_matched, others>>
  /\ \E viki_title \in TvdbTitles, login \in TvdbLogins, search \in ProbeSearches,
        xref \in ProbeXrefs :
       probe' = TvdbProbed(viki_title, login, search, xref)

\* self._tier_tvdb_aliases(viki_show, viki_title), the detail requests being
\* answered by `detail`
AliasesProbed(viki_title, login, search, detail, xref) ==
  [tier |-> "tvdb_aliases", viki_title |-> viki_title, login |-> login,
   search |-> search, detail |-> detail, xref |-> xref,
   out |-> _tier_tvdb_aliases(<<"1">>, viki_title, api_key, trakt_available,
                              TvdbWorld(login, search, detail), xref)]

ProbeAliases ==
  /\ probe = NoProbe
  /\ ncalls = 0
  /\ UNCHANGED <<trakt_available, api_key, cache, call, ncalls, last_matched, others>>
  /\ \/ \E viki_title \in TvdbTitles, detail \in ProbeDetails, xref \in ProbeXrefs,
           search \in ProbeSearches
                      \cup {Http("200", TRUE, BeyondTop), Http("200", TRUE, WithinTop)} :
          probe' = AliasesProbed(viki_title, LoginOk, search, detail, xref)
     \/ \E viki_title \in TvdbTitles, login \in TvdbLogins, xref \in ProbeXrefs :
          probe' = AliasesProbed(viki_title, login,
                                 Http("200", TRUE, << Series(NoneId, 11, T_X, << >>) >>),
                                 (11 :> DetailName), xref)

\* Longest alias list drawn from the alias site.
MaxAliases == 33

\* What MdlClient.search_alias returns: no page, no alias, one alias, two
\* aliases, and a list of MaxAliases aliases of which only the last one is
\* known to TVDB.
ProbeMdls ==
  { [found |-> FALSE, english_aliases |-> << >>],
    [found |-> TRUE, english_aliases |-> << >>],
    [found |-> TRUE, english_aliases |-> << T_x >>],
    [found |-> TRUE, english_aliases |-> << T_y, T_x >>],
    [found |-> TRUE, english_aliases |-> << T_x, T_y >>],
    [found |-> TRUE,
     english_aliases |-> [i \in 1..MaxAliases |-> IF i < MaxAliases THEN T_y ELSE T_x]] }

\* What TVDB answers to the search for one alias.
AliasSearches ==
  { Http("200", TRUE, << >>),
    Http("200", TRUE, << Series(11, NoneId, T_X, << >>) >>),
    Http("200", TRUE, << Series(12, NoneId, T_y, << >>), Series(11, NoneId, T_X, << >>) >>),
    Http("200", TRUE, << Series(NoneId, 13, T_y, << >>) >>),
    Http("503", TRUE, << >>),
    Http("timeout", TRUE, << >>) }

\* self._tier_mdl(viki_show, viki_title), the TVDB search answering for_x to
\* the query "x" and for_y to the query "y"
MdlProbed(viki_title, mdl, for_x, for_y, xref) ==
  [tier |-> "mdl", viki_title |-> viki_title, mdl |-> mdl,
   search |-> (T_x :> for_x) @@ (T_y :> for_y), xref |-> xref,
   out |-> _tier_mdl(<<"1">>, viki_title, api_key, trakt_available, mdl,
                     [login |-> LoginOk, search |-> (T_x :> for_x) @@ (T_y :> for_y),
                      detail |-> << >>],
                     xref)]

ProbeMdl ==
  /\ probe = NoProbe
  /\ ncalls = 0
  /\ UNCHANGED <<trakt_available, api_key, cache, call, ncalls, last_matched, others>>
  /\ \E viki_title \in TvdbTitles, mdl \in ProbeMdls, for_x \in AliasSearches,
        for_y \in AliasSearches, xref \in ProbeXrefs :
       probe' = MdlProbed(viki_title, mdl, for_x, for_y, xref)

\* TraktClient.search_shows against a service that answers the k-th request
\* it receives with answers[k]: one requests.get is made, whatever it
\* answers, and its outcome is what the tier sees.
SearchShowsOn(answers) == [requests |-> 1, resp |-> answers[1]]

\* What the search may answer first, and what it answers from then on.
FirstAnswers ==
  { Http(status, TRUE, << >>) : status \in {"timeout", "429", "503", "504", "404"} }
  \cup { Http("200", FALSE, << >>), Http("200", TRUE, <<ItemX>>) }
LaterAnswers ==
  { Http("200", TRUE, <<ItemX>>), Http("200", TRUE, <<ItemY, ItemX>>),
    Http("200", TRUE, << >>), Http("503", TRUE, << >>) }

\* self._tier_exact_trakt(viki_show, viki_title) with the search answering
\* its successive requests with `answers`
ExactProbedOn(viki_title, answers) ==
  [tier |-> "exact_trakt_on", viki_title |-> viki_title, answers |-> answers,
   requests |-> SearchShowsOn(answers).requests,
   out |-> _tier_exact_trakt(<<"1">>, viki_title, trakt_available,
                             TraktWorld(SearchShowsOn(answers).resp, {}))]

ProbeExactOn ==
  /\ probe = NoProbe
  /\ ncalls = 0
  /\ UNCHANGED <<trakt_available, api_key, cache, call, ncalls, last_matched, others>>
  /\ \E viki_title \in {T_x, T_X}, first \in FirstAnswers, second \in LaterAnswers,
        third \in LaterAnswers :
       probe' = ExactProbedOn(viki_title, <<first, second, third>>)

TierNext ==
  \/ ProbeExact
  \/ ProbeTvdb
  \/ ProbeAliases
  \/ ProbeMdl
  \/ ProbeExactOn

TierSpec == Init /\ [][TierNext]_vars

----------------------------------------------------------------------------
\* Properties of ShowMatcher.match.

\* The order of the tiers and the acceptance test of each step, as the
\* documentation of match() states them.
TierOrder == <<"exact_trakt", "tvdb", "tvdb_aliases", "mdl", "exact_trakt">>
Cleared(i, o) ==
  /\ ~o.raised
  /\ o.trakt_id # NoneId
  /\ o.match_confidence > 0
  /\ CASE i = 1 -> o.match_confidence > 85
       [] i = 2 -> o.match_confidence > 70
       [] i = 3 -> o.match_confidence > 65
       [] i = 4 -> o.match_confidence > 60
       [] OTHER -> o.match_confidence >= 80

\* The invocation got past the validation and found no matched cache entry.
Ran(c) == c.reads = 1 /\ ~(c.cached # NoRow /\ is_matched(c.cached))

\* The result r is what the tier yielded as o.
SameAs(r, o) ==
  /\ r.trakt_id = o.trakt_id
  /\ r.trakt_slug = o.trakt_slug
  /\ r.match_confidence = o.match_confidence
  /\ r.match_method = o.match_method

\* The cache entry for the invocation's viki_id is its returned result.
Persisted(c) == MatchDB_get(cache, c.viki_id) = c.result

StepOf(pc) ==
  CASE pc = "exact_trakt" -> 1 [] pc = "tvdb" -> 2 [] pc = "tvdb_aliases" -> 3
    [] pc = "mdl" -> 4 [] pc = "fallback" -> 5 [] OTHER -> 0

\* C1: when the cache holds no matched entry the tiers run in the order
\* exact search, cross-reference, alias expansion, alias site, exact search
\* again; no tier before the last one invoked cleared its threshold; a tier
\* that clears its threshold (> 0.85, > 0.7, > 0.65, > 0.6, >= 0.8) ends the
\* invocation with its result returned and persisted; and match() returns
\* only such a result or, after all five, the explicit no-match.
C1_TierOrder ==
  \A p \in Procs :
    Ran(call[p]) =>
      /\ Len(call[p].tiers) <= 5
      /\ call[p].tiers = SubSeq(TierOrder, 1, Len(call[p].tiers))
      /\ Len(call[p].outs) = Len(call[p].tiers)
      /\ StepOf(call[p].pc) # 0 => Len(call[p].tiers) = StepOf(call[p].pc) - 1
      /\ \A i \in 1..(Len(call[p].outs) - 1) : ~Cleared(i, call[p].outs[i])
      /\ \A i \in 1..Len(call[p].outs) :
           Cleared(i, call[p].outs[i]) =>
             /\ i = Len(call[p].outs)
             /\ call[p].pc = "returned"
             /\ SameAs(call[p].result, call[p].outs[i])
             /\ call[p].writes = 1
             /\ Persisted(call[p])
      /\ call[p].pc = "returned" =>
           /\ Len(call[p].outs) >= 1
           /\ \/ Cleared(Len(call[p].outs), call[p].outs[Len(call[p].outs)])
              \/ Len(call[p].outs) = 5 /\ call[p].result.match_method = "no_match"

\* C1's case: the cross-reference tier was the first to clear its threshold,
\* after an exact search that did not, and its result was returned.
C1_Witness ==
  \E p \in Procs :
    /\ call[p].pc = "returned"
    /\ call[p].tiers = <<"exact_trakt", "tvdb">>
    /\ call[p].outs[1].match_confidence = 80
    /\ call[p].result.match_method = "tvdb"

\* Every MatchResult at hand: yielded by a tier, read from the cache,
\* returned, or stored.
Results ==
  UNION { { call[p].outs[i] : i \in 1..Len(call[p].outs) }
          \cup (IF call[p].cached = NoRow THEN {} ELSE {call[p].cached})
          \cup (IF call[p].pc = "returned" THEN {call[p].result} ELSE {})
          \cup (IF call[p].exact_now.raised THEN {} ELSE {call[p].exact_now.result})
          : p \in Procs }
  \cup { MatchDB_get(cache, v) : v \in {w \in VikiIds : cache[w] # NoRow} }

\* C2: every MatchResult yielded by a tier, returned by match() or stored
\* in the cache is matched exactly when it has a target id and a positive
\* confidence, and none has a target id together with confidence 0.
C2_IsMatched ==
  \A r \in Results :
    /\ is_matched(r) <=> (r.trakt_id # NoneId /\ r.match_confidence > 0)
    /\ ~(r.trakt_id # NoneId /\ r.match_confidence = 0)

\* C2's case: the exact search yielded a candidate that lacks a numeric id,
\* with a positive confidence, and the invocation went on to return.
C2_Witness ==
  \E p \in Procs :
    /\ call[p].pc = "returned"
    /\ Len(call[p].outs) >= 1
    /\ call[p].outs[1].trakt_id = NoneId
    /\ call[p].outs[1].match_confidence > 0
    /\ \E v \in VikiIds : cache[v] # NoRow /\ is_matched(MatchDB_get(cache, v))

\* C3: once match() has returned a matched result for a viki_id, a later
\* call for it returns the same trakt_id, trakt_slug and confidence from the
\* cache, invoking no tier and writing nothing.
C3_CacheIdempotent ==
  \A p \in Procs :
    (call[p].reads = 1 /\ call[p].prior # NoRow) =>
      /\ call[p].pc = "returned"
      /\ call[p].result.trakt_id = call[p].prior.trakt_id
      /\ call[p].result.trakt_slug = call[p].prior.trakt_slug
      /\ call[p].result.match_confidence = call[p].prior.match_confidence
      /\ call[p].tiers = << >>
      /\ call[p].outs = << >>
      /\ call[p].writes = 0
      /\ MatchDB_get(cache, call[p].viki_id) = call[p].result

\* C3's case: a second call for a matched viki_id, made when the exact
\* search would answer with another show.
C3_Witness ==
  \E p \in Procs :
    /\ call[p].reads = 1
    /\ call[p].prior # NoRow
    /\ ~call[p].exact_now.raised
    /\ is_matched(call[p].exact_now.result)
    /\ call[p].exact_now.result.trakt_id # call[p].prior.trakt_id
    /\ call[p].pc = "returned"

\* C4: an invocation that finds an unmatched entry in the cache runs the
\* tiers and overwrites the entry with what it returns.
C4_UnmatchedRetried ==
  \A p \in Procs :
    (call[p].reads = 1 /\ call[p].cached # NoRow /\ ~is_matched(call[p].cached)
       /\ Over(p)) =>
      /\ call[p].pc = "returned"
      /\ call[p].tiers # << >>
      /\ call[p].writes = 1
      /\ Persisted(call[p])

ExactMethods == {"exact_trakt", "exact_trakt_article", "slug_lookup"}

\* C5 as stated: whenever the exact search would yield a confidence of 0.86
\* or more, the result of match() carries an exact-search method.
C5_Original ==
  \A p \in Procs :
    (call[p].pc = "returned" /\ ~call[p].exact_now.raised
       /\ call[p].exact_now.result.match_confidence >= 86) =>
      call[p].result.match_method \in ExactMethods

\* C5: when the cache holds no matched entry and the exact search yields a
\* matched result with confidence 0.86 or more, match() returns that
\* result, with an exact-search method, invoking no other tier.
C5_ExactPriority ==
  \A p \in Procs :
    (Ran(call[p]) /\ Over(p) /\ ~call[p].exact_now.raised
       /\ is_matched(call[p].exact_now.result)
       /\ call[p].exact_now.result.match_confidence >= 86) =>
      /\ call[p].pc = "returned"
      /\ call[p].result = call[p].exact_now.result
      /\ call[p].result.match_method \in ExactMethods
      /\ call[p].tiers = <<"exact_trakt">>

\* C5's case: an article-dropped exact match (0.9) returned by the first tier.
C5_Witness ==
  \E p \in Procs :
    /\ Ran(call[p])
    /\ call[p].pc = "returned"
    /\ is_matched(call[p].exact_now.result)
    /\ call[p].exact_now.result.match_confidence = 90
    /\ call[p].result.match_method = "exact_trakt_article"

\* C6: an invocation that got past the validation read the cache once; one
\* that ran tiers wrote it once, with the result it returned, which is then
\* the cache entry.
C6_ReadOnceWriteOnce ==
  \A p \in Procs :
    /\ (call[p].pc # "idle" /\ call[p].error # "ValueError") => call[p].reads = 1
    /\ (Over(p) /\ call[p].tiers # << >>) =>
         /\ call[p].pc = "returned"
         /\ call[p].writes = 1
         /\ Persisted(call[p])

\* C7: match() raises only for a show without identifier.
C7_NeverRaises ==
  \A p \in Procs : call[p].pc = "raised" => call[p].error = "ValueError"

\* The show carries neither "id" nor "viki_id".
NoId(viki_show) == ~TruthyName(viki_show.id) /\ ~TruthyName(viki_show.viki_id)

\* C8: a call of match() on a show without "id" and "viki_id" raises the
\* validation error having read no cache entry, invoked no tier and written
\* nothing, and leaves the cache as it was.
C8_MissingId ==
  [][\A p \in Procs :
       (ncalls' = ncalls + 1 /\ NoId(call'[p].show)) =>
         /\ call'[p].pc = "raised"
         /\ call'[p].error = "ValueError"
         /\ call'[p].reads = 0
         /\ call'[p].writes = 0
         /\ call'[p].tiers = << >>
         /\ cache' = cache]_vars

\* C8's case: the validation error raised while the cache holds an entry.
C8_Witness ==
  \E p \in Procs :
    /\ call[p].pc = "raised"
    /\ call[p].error = "ValueError"
    /\ NoId(call[p].show)
    /\ \E v \in VikiIds : cache[v] # NoRow

\* C9: a matched exact-search result of confidence 0.8 does not end the
\* invocation at the first step; a first-result fallback is returned only
\* by the fifth step, after the three tiers in between failed to clear
\* their thresholds; a tier in between that clears its threshold is the one
\* returned.
C9_WeakExactLast ==
  \A p \in Procs :
    Ran(call[p]) =>
      /\ (Len(call[p].outs) = 1 /\ ~call[p].outs[1].raised
            /\ call[p].outs[1].trakt_id # NoneId
            /\ call[p].outs[1].match_confidence = 80) => call[p].pc = "tvdb"
      /\ (call[p].pc = "returned"
            /\ call[p].result.match_method = "exact_trakt_first") =>
           /\ Len(call[p].outs) = 5
           /\ call[p].result.match_confidence = 80
           /\ \A i \in 2..4 : ~Cleared(i, call[p].outs[i])
      /\ \A i \in 2..4 :
           (i <= Len(call[p].outs) /\ Cleared(i, call[p].outs[i])) =>
             /\ call[p].pc = "returned"
             /\ SameAs(call[p].result, call[p].outs[i])

\* C9's case: the first step yielded a matched 0.8 result, the tiers in
\* between cleared nothing, and the re-check returned a first-result
\* fallback.
C9_Witness ==
  \E p \in Procs :
    /\ call[p].pc = "returned"
    /\ Len(call[p].outs) = 5
    /\ call[p].outs[1].trakt_id # NoneId
    /\ call[p].outs[1].match_confidence = 80
    /\ call[p].result.match_method = "exact_trakt_first"
    /\ call[p].result.match_confidence = 80

\* C10: when the tracking platform, the intermediary catalog and the alias
\* site answer every request of an invocation with zero results, match()
\* does not raise and returns, after all five steps, confidence 0,
\* trakt_id None and method "no_match", which is then the cache entry.
C10_NoMatch ==
  \A p \in Procs :
    (Ran(call[p]) /\ call[p].nothing) =>
      /\ call[p].pc # "raised"
      /\ call[p].pc = "returned" =>
           /\ Len(call[p].tiers) = 5
           /\ call[p].result.match_confidence = 0
           /\ call[p].result.trakt_id = NoneId
           /\ call[p].result.match_method = "no_match"
           /\ call[p].writes = 1
           /\ Persisted(call[p])

\* C10's case: with both services configured, all answers were empty and
\* the invocation returned.
C10_Witness ==
  \E p \in Procs :
    /\ trakt_available
    /\ api_key
    /\ call[p].nothing
    /\ call[p].pc = "returned"
    /\ Len(call[p].tiers) = 5

----------------------------------------------------------------------------
\* Tier A (the exact search) called on its own.

\* Every element of a search response is a candidate: it carries a show.
Candidates(results) == \A i \in 1..Len(results) : ~results[i].show_null

\* Tier A was called, with the tracking platform configured, and the search
\* returned at least one candidate.
ExactProbe ==
  /\ probe.tier = "exact_trakt"
  /\ trakt_available
  /\ probe.results # << >>
  /\ Candidates(probe.results)

\* Positions of the candidates whose normalised title equals the query's.
TitleHits ==
  {i \in 1..Len(probe.results) :
     _norm(OrEmpty(probe.results[i].title)) = _norm(probe.viki_title)}

\* Positions of the candidates whose title equals the query's once the
\* leading article is stripped from both.
ArticleHits ==
  {i \in 1..Len(probe.results) :
     _norm_no_article(OrEmpty(probe.results[i].title)) = _norm_no_article(probe.viki_title)}

\* Positions of the candidates whose slug starts with prefix.
SlugHits(prefix) ==
  {i \in 1..Len(probe.results) : StartsWith(OrEmpty(probe.results[i].slug), prefix)}

\* The query without its leading article, slugified.
SlugWithoutArticle == _slugify(ReSubArticle(probe.viki_title, TRUE))

First(S) == CHOOSE i \in S : \A j \in S : i <= j

\* The tier handed back show `item` with the given confidence and method.
Yields(out, item, confidence, method) ==
  /\ ~out.raised
  /\ out.result.trakt_id = item.trakt
  /\ out.result.trakt_slug = item.slug
  /\ out.result.trakt_title = item.title
  /\ out.result.match_confidence = confidence
  /\ out.result.match_method = method

\* C11: Tier A returns the first search candidate whose normalised title
\* equals the normalised query, with confidence 1.0 and method exact_trakt,
\* wherever it stands in the list and whatever precedes it.
C11_ExactTitle ==
  (ExactProbe /\ TitleHits # {}) =>
    Yields(probe.out, probe.results[First(TitleHits)], 100, "exact_trakt")

\* C11's case: the exact match stands second, behind a candidate that
\* matches only once the article is stripped.
C11_Witness ==
  /\ ExactProbe
  /\ TitleHits # {}
  /\ First(TitleHits) = 2
  /\ 1 \in ArticleHits
  /\ probe.results[1] # probe.results[2]
  /\ probe.out.result.trakt_id = probe.results[2].trakt

\* C12 as stated: with no exact title match, the first candidate matching
\* once the article is stripped is returned with 0.9, exact_trakt_article.
C12_Original ==
  (ExactProbe /\ TitleHits = {} /\ ArticleHits # {}) =>
    Yields(probe.out, probe.results[First(ArticleHits)], 90, "exact_trakt_article")

\* C12: with no exact title match, the first candidate matching once the
\* article is stripped is returned; it gets 0.9 and exact_trakt_article
\* unless its slug starts with the slugified query, which grades it 1.0 and
\* exact_trakt.
C12_Article ==
  (ExactProbe /\ TitleHits = {} /\ ArticleHits # {}) =>
    IF First(ArticleHits) \in SlugHits(_slugify(probe.viki_title))
      THEN Yields(probe.out, probe.results[First(ArticleHits)], 100, "exact_trakt")
      ELSE Yields(probe.out, probe.results[First(ArticleHits)], 90, "exact_trakt_article")

\* C12's case: two different candidates match once the article is stripped,
\* none matches exactly, and the first was returned with 0.9.
C12_Witness ==
  /\ ExactProbe
  /\ TitleHits = {}
  /\ ArticleHits = {1, 2}
  /\ probe.results[1] # probe.results[2]
  /\ probe.out.result.match_confidence = 90
  /\ probe.out.result.match_method = "exact_trakt_article"

\* No slug the direct lookups try is known to the by-slug endpoint.
EverySlugProbeFails ==
  \A suffix \in { << >>, <<"-","2","0","2","5">>, <<"-","2","0","2","4">>,
                  <<"-","2","0","2","6">> } :
    \A s \in probe.catalog : s.slug # _slugify(probe.viki_title) \o suffix

\* No candidate's slug starts with a non-empty slugified form of the query.
NoSlugPrefixMatch ==
  /\ _slugify(probe.viki_title) # << >> => SlugHits(_slugify(probe.viki_title)) = {}
  /\ SlugWithoutArticle # << >> => SlugHits(SlugWithoutArticle) = {}

\* C13: when no candidate matches the query by title, with or without the
\* leading article, (nor by a non-empty slug prefix) and every slug probe
\* fails, Tier A returns the first result with confidence exactly 0.8 and
\* method exact_trakt_first, also for a query whose slugified form is empty.
C13_FirstResultFallback ==
  (ExactProbe /\ TitleHits = {} /\ ArticleHits = {} /\ NoSlugPrefixMatch
     /\ EverySlugProbeFails) =>
    Yields(probe.out, probe.results[1], 80, "exact_trakt_first")

\* The slugs C14 names, in the order it names them.
ProbeOrder ==
  << _slugify(probe.viki_title),
     _slugify(probe.viki_title) \o <<"-","2","0","2","5">>,
     _slugify(probe.viki_title) \o <<"-","2","0","2","4">>,
     _slugify(probe.viki_title) \o <<"-","2","0","2","6">> >>

\* Positions in ProbeOrder of the slugs the by-slug endpoint knows.
Known == {k \in 1..4 : \E s \in probe.catalog : s.slug = ProbeOrder[k]}

\* C14: when the search returns candidates of which none matches by title
\* or by slug prefix, the direct lookups go in the order slug, -2025, -2024,
\* -2026, and the first that succeeds is returned with confidence 1.0 and
\* method slug_lookup instead of the first search result.
C14_SlugProbes ==
  (ExactProbe /\ TitleHits = {} /\ ArticleHits = {}
     /\ SlugHits(_slugify(probe.viki_title)) = {} /\ SlugHits(SlugWithoutArticle) = {}
     /\ Known # {}) =>
    \E s \in probe.catalog :
      /\ s.slug = ProbeOrder[First(Known)]
      /\ Yields(probe.out, s, 100, "slug_lookup")

\* C14's case: the by-slug endpoint knows both the -2024 and the -2025
\* variant, and the -2025 one was returned.
C14_Witness ==
  /\ ExactProbe
  /\ TitleHits = {} /\ ArticleHits = {}
  /\ SlugHits(_slugify(probe.viki_title)) = {} /\ SlugHits(SlugWithoutArticle) = {}
  /\ Known = {2, 3}
  /\ probe.out.result.match_method = "slug_lookup"
  /\ probe.out.result.trakt_id = 25

----------------------------------------------------------------------------
\* The Cross-Reference tier (Tier B: primary and alias-expansion modes)
\* called on its own.

\* The login answers 200 with a token.
LoginSucceeds ==
  probe.login.status = "200" /\ ~probe.login.data.data_null /\ probe.login.data.token

\* The search answers 200 with at least one series.
SearchSucceeds == probe.search.status = "200" /\ probe.search.data # << >>

\* A response arrived, with a status other than 200.
NonOk(resp) == resp.status \notin {"200", "timeout"}

\* result.get("tvdb_id") or result.get("id")
IdOfSeries(r) == IF Truthy(r.tvdb_id) THEN r.tvdb_id ELSE r.id

\* Positions of the search results whose normalised name equals the query's.
NameHits ==
  {i \in 1..Len(probe.search.data) :
     _norm(probe.search.data[i].name) = _norm(probe.viki_title)}

\* Positions of the search results whose normalised name, or one of whose
\* aliases, equals the query's.
NameOrAliasHits ==
  {i \in 1..Len(probe.search.data) :
     \/ _norm(probe.search.data[i].name) = _norm(probe.viki_title)
     \/ \E k \in 1..Len(probe.search.data[i].aliases) :
          _norm(probe.search.data[i].aliases[k]) = _norm(probe.viki_title)}

\* The by-external-id lookup for TVDB id `id` returns an entry with an id.
Usable(id) ==
  /\ Truthy(id)
  /\ id \in DOMAIN probe.xref
  /\ probe.xref[id].found
  /\ Truthy(probe.xref[id].trakt)

\* The tier returned an unmatched result.
ReportsUnmatched(out) ==
  /\ ~out.raised
  /\ ~is_matched(out.result)
  /\ out.result.trakt_id = NoneId
  /\ out.result.match_confidence = 0

\* The tier returned the cross-reference of TVDB id `id`, graded as given.
CrossReferences(out, id, confidence, method) ==
  /\ ~out.raised
  /\ is_matched(out.result)
  /\ out.result.trakt_id = probe.xref[id].trakt
  /\ out.result.tvdb_id = id
  /\ out.result.match_confidence = confidence
  /\ out.result.match_method = method

\* What the primary mode returns when the candidate it chooses is the first
\* of `hits`, or the first result when hits is empty.
TvdbVerdict(hits) ==
  IF /\ api_key /\ trakt_available /\ LoginSucceeds /\ SearchSucceeds
     /\ Usable(IdOfSeries(probe.search.data[IF hits = {} THEN 1 ELSE First(hits)]))
    THEN CrossReferences(probe.out,
                         IdOfSeries(probe.search.data[IF hits = {} THEN 1 ELSE First(hits)]),
                         95, "tvdb")
    ELSE ReportsUnmatched(probe.out)

DetailFails(r) ==
  /\ Truthy(IdOfSeries(r))
  /\ \/ IdOfSeries(r) \notin DOMAIN probe.detail
     \/ probe.detail[IdOfSeries(r)].status # "200"

DetailAnswers(r) == ~DetailFails(r)

\* The first 10 search results.
Top(results) == SubSeq(results, 1, IF Len(results) < 10 THEN Len(results) ELSE 10)

\* The tier was called with the TVDB key configured, and the login or the
\* search was answered with a status other than 200.
LoginOrSearchFails ==
  /\ probe.tier \in {"tvdb", "tvdb_aliases"}
  /\ api_key
  /\ \/ NonOk(probe.login)
     \/ LoginSucceeds /\ NonOk(probe.search)

\* The alias-expansion mode got as far as the detail requests.
AliasProbe ==
  /\ probe.tier = "tvdb_aliases"
  /\ api_key
  /\ LoginSucceeds
  /\ SearchSucceeds

Examined ==
  {i \in 1..Len(Top(probe.search.data)) :
     Truthy(IdOfSeries(probe.search.data[i])) /\ ~DetailFails(probe.search.data[i])}

\* The detail record of candidate i.
Record(i) == probe.detail[IdOfSeries(probe.search.data[i])].data

\* The names of the English aliases of candidate i.
EngNames(i) ==
  {Record(i).aliases[k].name : k \in {j \in 1..Len(Record(i).aliases) :
                                        /\ Record(i).aliases[j].language = "eng"
                                        /\ TruthyName(Record(i).aliases[j].name)}}

\* The grade of candidate i: 95 primary name exact, 92 English alias exact,
\* 85 primary name article match, 82 alias article match, 0 no hit.
HitGrade(i) ==
  IF TruthyName(Record(i).name) /\ _norm(Record(i).name) = _norm(probe.viki_title)
    THEN 95
  ELSE IF \E n \in EngNames(i) : _norm(n) = _norm(probe.viki_title)
    THEN 92
  ELSE IF /\ TruthyName(Record(i).name)
          /\ _norm_no_article(Record(i).name) = _norm_no_article(probe.viki_title)
    THEN 85
  ELSE IF \E n \in EngNames(i) : _norm_no_article(n) = _norm_no_article(probe.viki_title)
    THEN 82
  ELSE 0

HitMethod(grade) ==
  CASE grade = 95 -> "tvdb_alias_primary"
    [] grade = 92 -> "tvdb_alias_match"
    [] grade = 85 -> "tvdb_alias_primary_article"
    [] grade = 82 -> "tvdb_alias_match_article"

\* The examined candidates with a hit, and those with an exact hit.
Hits == {i \in Examined : HitGrade(i) > 0}
ExactHits == {i \in Examined : HitGrade(i) >= 92}

\* The earliest of the highest-graded hits.
Highest == First({i \in Hits : \A j \in Hits : HitGrade(j) <= HitGrade(i)})

\* What the alias-expansion mode returns when candidate w wins.
AliasVerdict(w) ==
  IF trakt_available /\ Usable(IdOfSeries(probe.search.data[w]))
    THEN CrossReferences(probe.out, IdOfSeries(probe.search.data[w]),
                         HitGrade(w), HitMethod(HitGrade(w)))
    ELSE ReportsUnmatched(probe.out)

\* C17 as stated: among the first 10 candidates the highest-graded hit wins,
\* a later primary-name exact hit over an earlier alias exact hit.
C17_Original ==
  AliasProbe =>
    IF Hits = {} THEN ReportsUnmatched(probe.out) ELSE AliasVerdict(Highest)

\* C17: the alias-expansion mode examines at most the first 10 candidates,
\* in order, and stops at the first one with an exact hit (primary name
\* 0.95, else English alias 0.92), which wins; when no examined candidate
\* has an exact hit the highest-graded article hit (primary name 0.85, alias
\* 0.82) wins, the earliest on a tie.
C17_BestHit ==
  AliasProbe =>
    IF Hits = {} THEN ReportsUnmatched(probe.out)
    ELSE IF ExactHits # {} THEN AliasVerdict(First(ExactHits))
    ELSE AliasVerdict(Highest)

\* C17's case: the first candidate has an exact alias hit, the second an
\* exact primary-name hit, and the first was returned with 0.92.
C17_Witness ==
  /\ AliasProbe
  /\ Examined = {1, 2}
  /\ HitGrade(1) = 92
  /\ HitGrade(2) = 95
  /\ IdOfSeries(probe.search.data[1]) # IdOfSeries(probe.search.data[2])
  /\ CrossReferences(probe.out, IdOfSeries(probe.search.data[1]), 92, "tvdb_alias_match")

----------------------------------------------------------------------------
\* Tier C (the alias site) called on its own.

\* The alias site returned a page with at least one alias, and the TVDB key
\* is configured.
MdlProbe ==
  /\ probe.tier = "mdl"
  /\ api_key
  /\ probe.mdl.found
  /\ probe.mdl.english_aliases # << >>

\* The TVDB search for the alias at position i (from 1) and the cross-
\* reference of its first result both succeed.
AliasSucceeds(i) ==
  /\ probe.search[probe.mdl.english_aliases[i]].status = "200"
  /\ probe.search[probe.mdl.english_aliases[i]].data # << >>
  /\ trakt_available
  /\ Usable(probe.search[probe.mdl.english_aliases[i]].data[1].tvdb_id)

Succeeding == {i \in 1..Len(probe.mdl.english_aliases) : AliasSucceeds(i)}

\* C18: the first alias, in list order, whose TVDB search and cross-
\* reference both succeed wins with method mdl and confidence
\* 0.95 - 0.03 * index (index counted from 0); with no alias, or none that
\* succeeds, the tier is unmatched.
C18_FirstAliasWins ==
  /\ (MdlProbe /\ Succeeding # {}) =>
       CrossReferences(probe.out,
         probe.search[probe.mdl.english_aliases[First(Succeeding)]].data[1].tvdb_id,
         95 - 3 * (First(Succeeding) - 1), "mdl")
  /\ (probe.tier = "mdl" /\ ~(MdlProbe /\ Succeeding # {})) => ReportsUnmatched(probe.out)

\* C19: every MatchResult produced by a tier, returned by match() or held
\* in the cache has a confidence within [0, 1], whatever the number of
\* search candidates and of alias-site aliases.
C19_ConfidenceRange ==
  /\ \A r \in Results : r.match_confidence >= 0 /\ r.match_confidence <= 100
  /\ (probe.tier # "none" /\ ~probe.out.raised) =>
       /\ probe.out.result.match_confidence >= 0
       /\ probe.out.result.match_confidence <= 100

\* C19's case: the alias site returned the longest list, of which only the
\* last alias is known to TVDB and to the tracking platform, and Tier C
\* returned.
C19_Witness ==
  /\ MdlProbe
  /\ Len(probe.mdl.english_aliases) = MaxAliases
  /\ Succeeding = {MaxAliases}
  /\ ~probe.out.raised

----------------------------------------------------------------------------
\* Concurrent invocations for one show id.

\* Caller p has finished an invocation for viki_id that saved its result.
Wrote(p, viki_id) ==
  /\ call[p].pc = "returned"
  /\ call[p].viki_id = viki_id
  /\ call[p].writes = 1

\* C20: when two match() calls for the same id run concurrently, every change
\* of the cache entry is the save of one caller, after which the entry is
\* that caller's complete result; so once both have finished the entry is
\* the result of one of them (the one that saved last), never a mixture.
C20_LastWriterWins ==
  /\ [](\A v \in VikiIds :
          (\A p \in Callers : Wrote(p, v)) =>
            \E p \in Callers : MatchDB_get(cache, v) = call[p].result)
  /\ [][\A v \in VikiIds :
          cache'[v] # cache[v] =>
            \E p \in Callers :
              /\ ~Over(p)
              /\ call'[p].pc = "returned"
              /\ call'[p].viki_id = v
              /\ call'[p].writes = call[p].writes + 1
              /\ MatchDB_get(cache', v) = call'[p].result]_vars

\* C20's case: both callers missed the cache, both ran the tiers, both
\* saved, with different results, and the entry is the result of caller 2
\* while caller 1's differs from it.
C20_Witness ==
  /\ \A p \in Callers :
       /\ Wrote(p, <<"1">>)
       /\ call[p].cached = NoRow
       /\ Len(call[p].tiers) >= 1
  /\ call[1].result # call[2].result
  /\ call[1].result.trakt_id # call[2].result.trakt_id
  /\ MatchDB_get(cache, <<"1">>) = call[2].result

----------------------------------------------------------------------------
\* Transient failures of a tier's external call.

\* A timeout or connection reset, or a 429 / 503 / 504 response.
Transient(resp) == resp.status \in {"timeout", "429", "503", "504"}

\* C21: a transient failure of the search made by Tier A is retried inside
\* that call, so that the tier is unmatched only once the retries are
\* exhausted (a retry that is answered with the show gives a match); a
\* non-transient failure is not retried.
C21_TransientRetried ==
  (probe.tier = "exact_trakt_on" /\ trakt_available) =>
    /\ Transient(probe.answers[1]) => probe.requests > 1
    /\ (Transient(probe.answers[1]) /\ probe.answers[2] = Http("200", TRUE, <<ItemX>>)) =>
         is_matched(probe.out.result)
    /\ ~Transient(probe.answers[1]) => probe.requests = 1

----------------------------------------------------------------------------
\* The cache as written by match().

\* C22: a step changes the cache only as the persist step of an invocation
\* of match(), which creates or overwrites the entry of that invocation's id
\* and leaves every other entry as it was; no entry is ever deleted.
C22_OnlyOwnEntry ==
  [][\A v \in VikiIds :
       /\ cache[v] # NoRow => cache'[v] # NoRow
       /\ cache'[v] # cache[v] =>
            \E p \in Procs :
              /\ ~Over(p)
              /\ call'[p].pc = "returned"
              /\ call'[p].viki_id = v
              /\ call'[p].writes = call[p].writes + 1
              /\ MatchDB_get(cache', v) = call'[p].result]_vars

\* C22's case: an invocation for id "2" has saved its result while the
\* entry of id "1", written before, is still there.
C22_Witness ==
  /\ cache[<<"1">>] # NoRow
  /\ cache[<<"2">>] # NoRow
  /\ \E p \in Procs :
       /\ call[p].pc = "returned"
       /\ call[p].viki_id = <<"2">>
       /\ call[p].writes = 1

----------------------------------------------------------------------------
\* retry_on_transient.

\* The outcome of a call of func is a failure the wrapper retries.
Failure(outcome) == outcome \in {"429", "503", "504"} \cup FuncExceptions

\* C23: retry_on_transient(func, max_retries=n) calls func at most n + 1
\* times, every call but the last having failed with a 429/503/504 response
\* or a timeout/connection error (one budget for both); it always
\* terminates: it returns the first non-transient response, with no further
\* call, or the last transient response once n + 1 calls are made, or it
\* raises the last connection error once n + 1 calls are made.
C23_RetryBounded ==
  /\ [](retry.pc # "idle" =>
          /\ retry.calls <= retry.max_retries + 1
          /\ retry.calls = Len(retry.outcomes)
          /\ \A k \in 1..(retry.calls - 1) : Failure(retry.outcomes[k])
          /\ retry.pc = "loop" =>
               /\ retry.calls <= retry.max_retries
               /\ \A k \in 1..retry.calls : Failure(retry.outcomes[k])
          /\ retry.pc = "returned" =>
               /\ retry.calls >= 1
               /\ retry.response = retry.outcomes[retry.calls]
               /\ retry.response \in FuncResponses
               /\ Failure(retry.response) => retry.calls = retry.max_retries + 1
          /\ retry.pc = "raised" =>
               /\ retry.calls = retry.max_retries + 1
               /\ retry.last_exception = retry.outcomes[retry.calls]
               /\ retry.last_exception \in FuncExceptions)
  /\ (retry.pc = "loop") ~> (retry.pc \in {"returned", "raised"})

\* C23's case: with two retries, a timeout and a 503 were retried and the
\* third call returned a non-transient response.
C23_Witness ==
  /\ retry.pc = "returned"
  /\ retry.max_retries = 2
  /\ retry.outcomes = <<"TimeoutError", "503", "404">>

\* C24: the waits between successive attempts grow exponentially; with the
\* default backoff_factor they are 1 s, 2 s, 4 s.
C24_WaitsDouble ==
  (retry.pc # "idle" /\ retry.backoff_factor = DefaultBackoffFactor) =>
    \A k \in 1..Len(retry.waits) : retry.waits[k] = Power(2, k - 1)

----------------------------------------------------------------------------
\* What the cache holds.

\* An explicit no-match entry.
NoMatchEntry(row) ==
  row.trakt_id = NoneId /\ row.confidence = 0 /\ row.method = "no_match"

\* An accepted match.
AcceptedEntry(row) ==
  row.trakt_id # NoneId /\ row.confidence > 60 /\ row.method # "no_match"

\* C26: every cache entry is an explicit no-match (trakt_id null, confidence
\* 0, method no_match) or an accepted match (trakt_id set, confidence above
\* 0.6, another method); the cache changes only when an invocation returns,
\* and the entry written is then either the explicit no-match or the outcome
\* of the step just taken, which has a target id and cleared the threshold
\* of that step: an outcome rejected at its step, or without a target id, is
\* not written.
C26_EntriesAccepted ==
  /\ [](\A v \in VikiIds :
          cache[v] # NoRow => NoMatchEntry(cache[v]) \/ AcceptedEntry(cache[v]))
  /\ [][\A v \in VikiIds :
          cache'[v] # cache[v] =>
            \E p \in Procs :
              LET c == call'[p]
                  n == Len(c.outs)
              IN /\ call[p].pc \notin {"idle", "returned", "raised"}
                 /\ c.pc = "returned"
                 /\ c.viki_id = v
                 /\ MatchDB_get(cache', v) = c.result
                 /\ n = Len(call[p].outs) + 1
                 /\ \/ NoMatchEntry(cache'[v]) /\ n = 5 /\ ~Cleared(5, c.outs[5])
                    \/ /\ Cleared(n, c.outs[n])
                       /\ SameAs(c.result, c.outs[n])
                       /\ AcceptedEntry(cache'[v])]_vars

\* C26's case: the cache holds an explicit no-match and an accepted match,
\* the latter written by an invocation whose first step had rejected a
\* result with a target id (confidence 0.8) and whose later tier cleared its
\* threshold.
C26_Witness ==
  /\ \E v \in VikiIds : cache[v] # NoRow /\ NoMatchEntry(cache[v])
  /\ \E p \in Procs :
       /\ call[p].pc = "returned"
       /\ call[p].writes = 1
       /\ Len(call[p].outs) \in 2..4
       /\ call[p].outs[1].trakt_id # NoneId
       /\ call[p].outs[1].match_confidence = 80
       /\ AcceptedEntry(cache[call[p].viki_id])

----------------------------------------------------------------------------
\* Token expiry notifications.

\* The i-th call of the handler sent an expiry notification.
Sent(i) == history[i].op = "handle_token_expired" /\ history[i].sent

\* The k-th call made the tracker forget what it recorded about `token`: a
\* notification about another token, mark_token_working with another token
\* or on_token_refreshed.
Forgets(k, token) ==
  \/ history[k].op = "on_token_refreshed"
  \/ history[k].op = "mark_token_working" /\ history[k].token # token
  \/ history[k].op = "handle_token_expired" /\ history[k].notified
       /\ history[k].token # token

\* C25 as stated: no two expiry notifications for the same token are sent
\* less than 24 hours apart, whatever calls were made.
C25_Original ==
  \A i, j \in 1..Len(history) :
    (i < j /\ Sent(i) /\ Sent(j) /\ history[i].token = history[j].token)
      => history[j].at - history[i].at >= 24

\* C25, amended: two expiry notifications for the same token are at least 24
\* hours apart when no call between them made the tracker forget the token
\* (a notification about another token, mark_token_working with another
\* token, on_token_refreshed); this holds of every notification attempted,
\* delivered or not.
C25_SpacedWhileTracked ==
  \A i, j \in 1..Len(history) :
    (/\ i < j
     /\ history[i].op = "handle_token_expired" /\ history[i].notified
     /\ history[j].op = "handle_token_expired" /\ history[j].notified
     /\ history[i].token = history[j].token
     /\ \A k \in (i + 1)..(j - 1) : ~Forgets(k, history[i].token))
      => history[j].at - history[i].at >= 24

\* C25's case: token A expired three times, 12 hours apart each; the first
\* and the third expiry were notified, the second was not.
C25_Witness ==
  /\ Len(history) = 3
  /\ \A i \in 1..3 : history[i].op = "handle_token_expired" /\ history[i].token = "A"
  /\ Sent(1) /\ history[1].at = 0
  /\ ~history[2].notified /\ history[2].at = 12
  /\ Sent(3) /\ history[3].at = 24

----------------------------------------------------------------------------
\* The sync workflow.

\* The last step was a run().
JustRan == last_run.outcome # "none"

\* C27: the stored last-watch-markers timestamp is never past a marker that
\* has not been persisted as an episode, whatever runs were made, those that
\* failed part-way included.
C27_NoMarkerMissed ==
  \A v \in Videos :
    (markers[v] # NoMarker /\ markers[v] < last_watch_markers_timestamp)
      => episodes[v] # NoEpisode

C29_ClearedNotRestored ==
  JustRan =>
    \A v \in last_run.attempted :
      (shows[v] # NoShowRow /\ shows[v].trakt_id # NoneId) => v \notin last_run.from_cache

\* C30: a show with match_source MANUAL has its target and confidence 1.0;
\* a run() leaves every show that has a target and source MANUAL or AUTO as
\* it is, and gives to _try_match only shows that had no row, no target or
\* match_source NONE.
C30_ManualKept ==
  /\ [](\A v \in VikiIds :
          (shows[v] # NoShowRow /\ shows[v].match_source = "MANUAL") =>
            /\ shows[v].trakt_id # NoneId
            /\ shows[v].match_confidence = 100
            /\ shows[v].match_method = "manual")
  /\ [][last_run'.outcome # "none" =>
          \A v \in VikiIds :
            /\ (/\ shows[v] # NoShowRow
                /\ shows[v].trakt_id # NoneId
                /\ shows[v].match_source \in {"MANUAL", "AUTO"})
                 => shows'[v] = shows[v]
            /\ v \in last_run'.attempted =>
                 \/ shows[v] = NoShowRow
                 \/ shows[v].trakt_id = NoneId
                 \/ shows[v].match_source = "NONE"]_vars

\* C30's case: a run() that went through the matching and flagged an episode
\* has just ended; show "1" still has the target the user set by hand, while
\* the matcher's cache holds the target the tiers had found for it.
C30_Witness ==
  /\ last_run.outcome = "done"
  /\ last_run.flagged > 0
  /\ shows[<<"1">>] # NoShowRow
  /\ shows[<<"1">>].match_source = "MANUAL"
  /\ shows[<<"1">>].trakt_id = 2
  /\ cache[<<"1">>] # NoRow
  /\ cache[<<"1">>].trakt_id = 1

====
